---- MODULE Spec2Model ----
(***************************************************************************)
(* Model of the Signal inbound monitor (src/src/signal/monitor.ts):        *)
(* monitorSignalProvider, its per-frame handler handleEvent, the reaction  *)
(* notification decision and the direct-message / group access policy.     *)
(*                                                                         *)
(* Strings are sequences of tokens: a token is one character ("+", "1",    *)
(* " ") or one literal piece of text that the code never looks inside      *)
(* ("uuid:", "Ada").  An absent (null / undefined) string is NULL, an      *)
(* absent object is the empty sequence, an absent list is NoList, an unset *)
(* enum option is "unset".                                                 *)
(***************************************************************************)
EXTENDS Integers, Sequences, FiniteSets, TLC

\* ------------------------------------------------------------------ bounds
MaxFrames == 2
MaxConnects == 3
MaxPolls == 2

\* ----------------------------------------------------------------- strings
NULL == <<"null">>
NoList == << NULL >>
EMPTY == <<>>
Digits == {"1", "2", "3"}

Truthy(s) == s # NULL /\ s # EMPTY

RECURSIVE TrimLeft(_)
TrimLeft(s) == IF s # <<>> /\ Head(s) = " " THEN TrimLeft(Tail(s)) ELSE s

RECURSIVE TrimRight(_)
TrimRight(s) ==
    IF s # <<>> /\ s[Len(s)] = " " THEN TrimRight(SubSeq(s, 1, Len(s) - 1)) ELSE s

\* String.prototype.trim; `x?.trim()` of an absent value stays absent.
Trim(s) == IF s = NULL THEN NULL ELSE TrimRight(TrimLeft(s))

IsDigitOrPlus(c) == c \in Digits \cup {"+"}

StartsWith(s, p) == Len(s) >= Len(p) /\ SubSeq(s, 1, Len(p)) = p

Contains(text, s) ==
    \E i \in 1..(Len(text) - Len(s) + 1) : SubSeq(text, i, i + Len(s) - 1) = s

\* utils.normalizeE164: trim, drop everything but digits and "+", and make
\* the result start with exactly one leading "+".
normalizeE164(number) ==
    LET digits == SelectSeq(Trim(number), IsDigitOrPlus)
    IN  IF digits # <<>> /\ Head(digits) = "+"
        THEN <<"+">> \o Tail(digits)
        ELSE <<"+">> \o digits

UuidPrefix == <<"uuid:">>

\* ---------------------------------------------------------------- identity
NoSender == [kind |-> "none", raw |-> NULL, e164 |-> NULL]

\* identity.resolveSignalSender: the phone field wins when it is populated,
\* else the uuid field, else no identity.
resolveSignalSender(envelope) ==
    LET sourceNumber == Trim(envelope.sourceNumber)
        sourceUuid == Trim(envelope.sourceUuid)
    IN  IF Truthy(sourceNumber)
        THEN [kind |-> "phone", raw |-> sourceNumber, e164 |-> normalizeE164(sourceNumber)]
        ELSE IF Truthy(sourceUuid)
        THEN [kind |-> "uuid", raw |-> sourceUuid, e164 |-> NULL]
        ELSE NoSender

\* identity.formatSignalSenderId: the canonical sender key.
formatSignalSenderId(sender) ==
    IF sender.kind = "phone" THEN sender.e164 ELSE UuidPrefix \o sender.raw

formatSignalSenderDisplay(sender) == formatSignalSenderId(sender)

resolveSignalPeerId(sender) == formatSignalSenderId(sender)

resolveSignalRecipient(sender) ==
    IF sender.kind = "phone" THEN sender.e164 ELSE sender.raw

\* identity.isSignalSenderAllowed: "*" allows everyone; a "uuid:<u>" entry
\* matches a uuid sender, any other entry matches a phone sender by its
\* normalized form.
EntryMatches(sender, entry) ==
    IF StartsWith(entry, UuidPrefix)
    THEN sender.kind = "uuid" /\ sender.raw = Trim(SubSeq(entry, 2, Len(entry)))
    ELSE sender.kind = "phone" /\ sender.e164 = normalizeE164(entry)

isSignalSenderAllowed(sender, allowFrom) ==
    /\ Len(allowFrom) > 0
    /\ \/ \E i \in 1..Len(allowFrom) : allowFrom[i] = <<"*">>
       \/ \E i \in 1..Len(allowFrom) : EntryMatches(sender, allowFrom[i])

\* monitor.normalizeAllowList: trim every entry and drop the empty ones.
NonEmptyEntry(entry) == entry # <<>>

normalizeAllowList(raw) ==
    IF raw = NoList THEN <<>>
    ELSE SelectSeq([i \in 1..Len(raw) |-> Trim(raw[i])], NonEmptyEntry)

\* ------------------------------------------------------- reaction decision
\* monitor.resolveSignalReactionTargets: the uuid candidate first, then the
\* phone candidate, each only when its field is populated.
resolveSignalReactionTargetsUuidOnly(reaction) ==
    LET uuid == Trim(reaction.targetAuthorUuid)
        author == Trim(reaction.targetAuthor)
    IN  IF Truthy(uuid)
        THEN << [kind |-> "uuid", id |-> uuid, display |-> UuidPrefix \o uuid] >>
        ELSE IF Truthy(author)
        THEN << [kind |-> "phone", id |-> normalizeE164(author),
                 display |-> normalizeE164(author)] >>
        ELSE <<>>

resolveSignalReactionTargetsPhoneFirst(reaction) ==
    LET uuid == Trim(reaction.targetAuthorUuid)
        author == Trim(reaction.targetAuthor)
    IN  (IF Truthy(author)
         THEN << [kind |-> "phone", id |-> normalizeE164(author),
                  display |-> normalizeE164(author)] >>
         ELSE <<>>)
        \o
        (IF Truthy(uuid)
         THEN << [kind |-> "uuid", id |-> uuid, display |-> UuidPrefix \o uuid] >>
         ELSE <<>>)

resolveSignalReactionTargets(reaction) ==
    LET uuid == Trim(reaction.targetAuthorUuid)
        author == Trim(reaction.targetAuthor)
    IN  (IF Truthy(uuid)
         THEN << [kind |-> "uuid", id |-> uuid, display |-> UuidPrefix \o uuid] >>
         ELSE <<>>)
        \o
        (IF Truthy(author)
         THEN << [kind |-> "phone", id |-> normalizeE164(author),
                  display |-> normalizeE164(author)] >>
         ELSE <<>>)

TargetMatchesAccountExactUuidOnly(accountId, target) ==
    IF target.kind = "uuid"
    THEN accountId = target.id
    ELSE normalizeE164(accountId) = target.id

\* shouldEmitSignalReactionNotification, mode own: the test of one candidate.
TargetMatchesAccount(accountId, target) ==
    IF target.kind = "uuid"
    THEN accountId = target.id \/ accountId = UuidPrefix \o target.id
    ELSE normalizeE164(accountId) = target.id

\* monitor.shouldEmitSignalReactionNotification
shouldEmitSignalReactionNotificationFirstOnly(mode, account, targets, sender, allowlist) ==
    LET effectiveMode == IF mode = "unset" THEN "own" ELSE mode
        accountId == Trim(account)
    IN  IF effectiveMode = "off" THEN FALSE
        ELSE IF effectiveMode = "own"
        THEN /\ Truthy(accountId)
             /\ Len(targets) > 0
             /\ TargetMatchesAccount(accountId, targets[1])
        ELSE IF effectiveMode = "allowlist"
        THEN /\ sender.kind # "none"
             /\ Len(allowlist) > 0
             /\ isSignalSenderAllowed(sender, allowlist)
        ELSE TRUE

shouldEmitSignalReactionNotificationAllowlistNeedsOwn(mode, account, targets, sender, allowlist) ==
    LET effectiveMode == IF mode = "unset" THEN "own" ELSE mode
        accountId == Trim(account)
        own == /\ Truthy(accountId)
               /\ Len(targets) > 0
               /\ \E i \in 1..Len(targets) : TargetMatchesAccount(accountId, targets[i])
    IN  IF effectiveMode = "off" THEN FALSE
        ELSE IF effectiveMode = "own" THEN own
        ELSE IF effectiveMode = "allowlist"
        THEN /\ sender.kind # "none"
             /\ Len(allowlist) > 0
             /\ isSignalSenderAllowed(sender, allowlist)
             /\ own
        ELSE TRUE

shouldEmitSignalReactionNotificationAllNeedsTarget(mode, account, targets, sender, allowlist) ==
    LET effectiveMode == IF mode = "unset" THEN "own" ELSE mode
        accountId == Trim(account)
    IN  IF effectiveMode = "off" THEN FALSE
        ELSE IF effectiveMode = "own"
        THEN /\ Truthy(accountId)
             /\ Len(targets) > 0
             /\ \E i \in 1..Len(targets) : TargetMatchesAccount(accountId, targets[i])
        ELSE IF effectiveMode = "allowlist"
        THEN /\ sender.kind # "none"
             /\ Len(allowlist) > 0
             /\ isSignalSenderAllowed(sender, allowlist)
        ELSE Len(targets) > 0

\* monitor.shouldEmitSignalReactionNotification
shouldEmitSignalReactionNotification(mode, account, targets, sender, allowlist) ==
    LET effectiveMode == IF mode = "unset" THEN "own" ELSE mode
        accountId == Trim(account)
    IN  IF effectiveMode = "off" THEN FALSE
        ELSE IF effectiveMode = "own"
        THEN /\ Truthy(accountId)
             /\ Len(targets) > 0
             /\ \E i \in 1..Len(targets) : TargetMatchesAccount(accountId, targets[i])
        ELSE IF effectiveMode = "allowlist"
        THEN /\ sender.kind # "none"
             /\ Len(allowlist) > 0
             /\ isSignalSenderAllowed(sender, allowlist)
        ELSE TRUE

\* monitor.buildSignalReactionSystemEventText
buildSignalReactionSystemEventText(emojiLabel, actorLabel, messageId, targetLabel, groupLabel) ==
    LET base == <<"Signal reaction added: ">> \o emojiLabel \o <<" by ">> \o actorLabel
                    \o <<" msg ">> \o messageId
        withTarget == IF Truthy(targetLabel) THEN base \o <<" from ">> \o targetLabel ELSE base
    IN  IF Truthy(groupLabel) THEN withTarget \o <<" in ">> \o groupLabel ELSE withTarget

\* ------------------------------------------------------------------ state
VARIABLES
    config,       \* the account's settings as configured (accountInfo.config)
    traffic,      \* what this run meets: its frames, a breakable stream, faulty calls
    allowStore,   \* the persisted allow-list (pairing store)
    pending,      \* ids of the pending pairing requests (pairing store)
    sysEvents,    \* every enqueueSystemEvent call, in call order
    sink,         \* what the notification sink holds
    hs,           \* one handleEvent invocation per received frame
    nFrames,      \* frames received so far
    monPc,        \* where monitorSignalProvider is
    aborted,      \* opts.abortSignal.aborted
    connects,     \* stream connection attempts so far
    failures,     \* stream failures so far
    polls,        \* failed polls of the readiness wait in progress
    daemon,       \* "none", "running" or "stopped"
    listener      \* the abort listener is attached

vars == << config, traffic, allowStore, pending, sysEvents, sink, hs, nFrames,
           monPc, aborted, connects, failures, polls, daemon, listener >>

monVars == << monPc, aborted, connects, failures, polls, daemon, listener >>
storeVars == << allowStore, pending >>
handlerVars == << sysEvents, sink, hs, nFrames >>

\* --------------------------------------------------------- resolved options
\* monitorSignalProvider, the constants it derives from the configuration.
Account == Trim(config.account)

DefaultDmPolicyAllowlist(configured) == IF configured = "unset" THEN "allowlist" ELSE configured

DefaultDmPolicy(configured) == IF configured = "unset" THEN "pairing" ELSE configured

DmPolicy == DefaultDmPolicy(config.dmPolicy)

AllowFrom == normalizeAllowList(config.allowFrom)

GroupAllowFrom ==
    normalizeAllowList(
        IF config.groupAllowFrom # NoList THEN config.groupAllowFrom
        ELSE IF config.allowFrom # NoList /\ Len(config.allowFrom) > 0 THEN config.allowFrom
        ELSE <<>>)

GroupPolicy == IF config.groupPolicy = "unset" THEN "open" ELSE config.groupPolicy

ReactionMode ==
    IF config.reactionNotifications = "unset" THEN "own" ELSE config.reactionNotifications

ReactionAllowlist == normalizeAllowList(config.reactionAllowlist)

MediaMaxMb == 8
MediaMaxBytes == MediaMaxMb * 1024 * 1024

IgnoreAttachments == config.ignoreAttachments

AutoStart == config.autoStart

\* ---------------------------------------------------------------- envelopes
Some(x) == x # <<>>

NumStr(n) == << <<"0", "1", "2", "3", "4", "5", "6", "7", "8", "9">>[n + 1] >>

\* routing.resolveAgentRoute: the session key is a function of the peer.
sessionKeyOf(peerKind, peerId) == <<"session:", peerKind, ":">> \o peerId

mainSessionKey == <<"session:main">>

\* Array.filter(Boolean).join(":")
RECURSIVE JoinTruthy(_)
JoinTruthy(parts) ==
    IF parts = <<>> THEN <<>>
    ELSE LET rest == JoinTruthy(Tail(parts))
         IN  IF ~Truthy(Head(parts)) THEN rest
             ELSE IF rest = <<>> THEN Head(parts)
             ELSE Head(parts) \o <<":">> \o rest

DataMessageOfReactionToo(envelope) ==
    IF Some(envelope.dataMessage) THEN envelope.dataMessage
    ELSE IF Some(envelope.editMessage) THEN envelope.editMessage[1].dataMessage
    ELSE IF Some(envelope.reactionMessage)
    THEN << [ message |-> envelope.reactionMessage[1].emoji, attachments |-> <<>>,
              groupId |-> envelope.reactionMessage[1].groupId,
              groupName |-> envelope.reactionMessage[1].groupName, quote |-> NULL ] >>
    ELSE <<>>

\* handleEvent: envelope.dataMessage ?? envelope.editMessage?.dataMessage
DataMessageOf(envelope) ==
    IF Some(envelope.dataMessage) THEN envelope.dataMessage
    ELSE IF Some(envelope.editMessage) THEN envelope.editMessage[1].dataMessage
    ELSE <<>>

TakesReactionPathAlways(envelope) == Some(envelope.reactionMessage)

TakesReactionPath(envelope) ==
    Some(envelope.reactionMessage) /\ ~Some(DataMessageOf(envelope))

IgnoresReactionNever(reaction) == FALSE

IgnoresReaction(reaction) == reaction.isRemove

IgnoresSyncOnlyWhenBare(envelope) ==
    /\ envelope.syncMessage
    /\ ~Some(envelope.dataMessage)
    /\ ~Some(envelope.reactionMessage)

\* handleEvent: an envelope with a syncMessage is left alone.
IgnoresSync(envelope) == envelope.syncMessage

IsSelfMessageRawAccount(sender) ==
    /\ Truthy(Account)
    /\ sender.kind = "phone"
    /\ sender.e164 = Account

\* handleEvent: the sender is the configured account itself.
IsSelfMessage(sender) ==
    /\ Truthy(Account)
    /\ sender.kind = "phone"
    /\ sender.e164 = normalizeE164(Account)

EmojiLabel(reaction) ==
    IF Truthy(Trim(reaction.emoji)) THEN Trim(reaction.emoji) ELSE <<"emoji">>

MessageIdOf(reaction) ==
    IF reaction.targetSentTimestamp # 0
    THEN NumStr(reaction.targetSentTimestamp) ELSE <<"unknown">>

ReactionContextKeyWithTarget(reaction, sender) ==
    JoinTruthy(<< <<"signal">>, <<"reaction">>, <<"added">>, MessageIdOf(reaction),
                  formatSignalSenderId(sender), EmojiLabel(reaction),
                  IF reaction.groupId = NULL THEN <<>> ELSE reaction.groupId,
                  IF reaction.targetAuthorUuid = NULL THEN <<>> ELSE reaction.targetAuthorUuid >>)

\* handleEvent, reaction branch: the contextKey of the notification.
ReactionContextKey(reaction, sender) ==
    JoinTruthy(<< <<"signal">>, <<"reaction">>, <<"added">>, MessageIdOf(reaction),
                  formatSignalSenderId(sender), EmojiLabel(reaction),
                  IF reaction.groupId = NULL THEN <<>> ELSE reaction.groupId >>)

TargetLabelPhonePreferred(targets) ==
    IF \E i \in 1..Len(targets) : targets[i].kind = "phone"
    THEN targets[CHOOSE i \in 1..Len(targets) : targets[i].kind = "phone"].display
    ELSE IF Len(targets) > 0 THEN targets[1].display ELSE NULL

TargetLabel(targets) == IF Len(targets) > 0 THEN targets[1].display ELSE NULL

ReactionNotificationKeyedByEvent(envelope, sender) ==
    LET reaction == envelope.reactionMessage[1]
        senderName == IF envelope.sourceName # NULL THEN envelope.sourceName
                      ELSE formatSignalSenderDisplay(sender)
        targets == resolveSignalReactionTargets(reaction)
        isGroup == Truthy(reaction.groupId)
        groupLabel == IF isGroup
                      THEN (IF reaction.groupName # NULL THEN reaction.groupName
                            ELSE <<"Signal Group">>) \o <<" id:">> \o reaction.groupId
                      ELSE NULL
    IN  [ text |-> buildSignalReactionSystemEventText(EmojiLabel(reaction), senderName,
                       MessageIdOf(reaction), TargetLabel(targets), groupLabel),
          sessionKey |-> IF isGroup THEN sessionKeyOf("group", reaction.groupId)
                         ELSE sessionKeyOf("dm", resolveSignalPeerId(sender)),
          contextKey |-> ReactionContextKey(reaction, sender) \o <<":">>
                             \o NumStr(envelope.timestamp) ]

\* handleEvent, reaction branch: the notification handed to enqueueSystemEvent.
ReactionNotification(envelope, sender) ==
    LET reaction == envelope.reactionMessage[1]
        senderName == IF envelope.sourceName # NULL THEN envelope.sourceName
                      ELSE formatSignalSenderDisplay(sender)
        targets == resolveSignalReactionTargets(reaction)
        isGroup == Truthy(reaction.groupId)
        groupLabel == IF isGroup
                      THEN (IF reaction.groupName # NULL THEN reaction.groupName
                            ELSE <<"Signal Group">>) \o <<" id:">> \o reaction.groupId
                      ELSE NULL
    IN  [ text |-> buildSignalReactionSystemEventText(EmojiLabel(reaction), senderName,
                       MessageIdOf(reaction), TargetLabel(targets), groupLabel),
          sessionKey |-> IF isGroup THEN sessionKeyOf("group", reaction.groupId)
                         ELSE sessionKeyOf("dm", resolveSignalPeerId(sender)),
          contextKey |-> ReactionContextKey(reaction, sender) ]

\* ------------------------------------------------------------- handleEvent
IdleHandler ==
    [ pc |-> "idle", frame |-> <<>>, conn |-> 0, path |-> "none", decision |-> "none",
      sender |-> NoSender, isGroup |-> FALSE, storeAllow |-> <<>>, cmdAuth |-> FALSE, created |-> FALSE,
      media |-> FALSE, body |-> <<>>, enq |-> 0, storeReads |-> 0, upserts |-> 0,
      sends |-> 0, lastRoute |-> 0, dispatch |-> 0, logged |-> {} ]

Finished(h, path) == [h EXCEPT !.pc = "done", !.path = path]

\* onEvent, the catch on the handler's promise: a rejection is logged.
Rejected(h) == [h EXCEPT !.pc = "failed", !.logged = @ \cup {"handler"}]

OnEventCatchRethrows(pc) == "threw"

\* onEvent, the catch on the handler's promise: nothing reaches the caller of
\* onEvent, monitorSignalProvider stays where it is.
OnEventCatch(pc) == pc

\* monitorSignalProvider as a handler's awaited call settles.
AfterSettle(rejected) ==
    /\ monPc' = IF rejected THEN OnEventCatch(monPc) ELSE monPc
    /\ UNCHANGED << aborted, connects, failures, polls, daemon, listener >>

OnParseErrorRejects(h) == Rejected(h)

\* handleEvent, the catch around JSON.parse: log and return.
OnParseError(h) == Finished([h EXCEPT !.logged = {"parse"}], "parseError")

\* handleEvent from its first line to its first await (or to its return).
Prefix(f) ==
    LET h0 == [IdleHandler EXCEPT !.frame = f]
    IN  IF f.event # "receive" \/ f.data = "empty" THEN Finished(h0, "ignored")
        ELSE IF f.data = "garbage"
        THEN OnParseError(h0)
        ELSE
        LET h1 == IF f.exception THEN [h0 EXCEPT !.logged = {"exception"}] ELSE h0
        IN  IF ~Some(f.envelope) THEN Finished(h1, "noEnvelope")
            ELSE
            LET envelope == f.envelope[1]
                sender == resolveSignalSender(envelope)
                h2 == [h1 EXCEPT !.sender = sender]
            IN  IF IgnoresSync(envelope) THEN Finished(h1, "sync")
                ELSE IF sender.kind = "none" THEN Finished(h1, "noSender")
                ELSE IF IsSelfMessage(sender) THEN Finished(h2, "self")
                ELSE IF TakesReactionPath(envelope)
                THEN LET reaction == envelope.reactionMessage[1]
                     IN  IF IgnoresReaction(reaction) THEN Finished(h2, "reactionRemoved")
                         ELSE IF ~shouldEmitSignalReactionNotification(ReactionMode, Account,
                                      resolveSignalReactionTargets(reaction), sender,
                                      ReactionAllowlist)
                         THEN Finished(h2, "reactionSilent")
                         ELSE Finished([h2 EXCEPT !.enq = 1], "reactionNotified")
                ELSE IF ~Some(DataMessageOf(envelope)) THEN Finished(h2, "noPayload")
                ELSE IF ~Truthy(resolveSignalRecipient(sender))
                THEN Finished(h2, "noRecipient")
                ELSE [h2 EXCEPT !.pc = "storeRead", !.path = "message", !.storeReads = 1,
                                !.isGroup = Truthy(DataMessageOf(envelope)[1].groupId)]

\* system-events.enqueueSystemEvent: idempotent per contextKey within a session.
Enqueue(store, n) ==
    IF \E e \in store : e.sessionKey = n.sessionKey /\ e.contextKey = n.contextKey
    THEN store ELSE store \cup {n}

ReceiveAfterHandlerEnds(f) ==
    /\ monPc = "streaming"
    /\ nFrames < MaxFrames
    /\ \A j \in 1..nFrames : hs[j].pc \in {"done", "failed"}
    /\ LET h == [Prefix(f) EXCEPT !.conn = connects]
       IN  /\ hs' = [hs EXCEPT ![nFrames + 1] = h]
           /\ IF h.enq = 1
              THEN LET n == ReactionNotification(f.envelope[1], h.sender)
                   IN  /\ sysEvents' = Append(sysEvents, [frameNo |-> nFrames + 1, event |-> n])
                       /\ sink' = Enqueue(sink, n)
              ELSE UNCHANGED << sysEvents, sink >>
    /\ nFrames' = nFrames + 1
    /\ UNCHANGED << config, traffic, storeVars, monVars >>

\* A frame arrives on the open stream: onEvent starts handleEvent for it and
\* does not wait for it. conn notes the connection that delivered the frame.
Receive(f) ==
    /\ monPc = "streaming"
    /\ nFrames < MaxFrames
    /\ LET h == [Prefix(f) EXCEPT !.conn = connects]
       IN  /\ hs' = [hs EXCEPT ![nFrames + 1] = h]
           /\ IF h.enq = 1
              THEN LET n == ReactionNotification(f.envelope[1], h.sender)
                   IN  /\ sysEvents' = Append(sysEvents, [frameNo |-> nFrames + 1, event |-> n])
                       /\ sink' = Enqueue(sink, n)
              ELSE UNCHANGED << sysEvents, sink >>
    /\ nFrames' = nFrames + 1
    /\ UNCHANGED << config, traffic, storeVars, monVars >>

\* handleEvent, direct-message policy: the access decision.
DmDecisionAllowlistFirst(dmPolicy, allowlisted) ==
    IF allowlisted \/ dmPolicy = "open" THEN "allow"
    ELSE IF dmPolicy = "pairing" THEN "deny-with-pairing"
    ELSE "deny-silent"

DmDecisionPairingOnUnknown(dmPolicy, allowlisted) ==
    IF dmPolicy = "disabled" THEN "deny-silent"
    ELSE IF dmPolicy = "open" \/ allowlisted THEN "allow"
    ELSE IF dmPolicy = "allowlist" THEN "deny-with-pairing"
    ELSE "deny-silent"

DmDecisionPairingFirst(dmPolicy, allowlisted) ==
    IF dmPolicy = "disabled" THEN "deny-silent"
    ELSE IF dmPolicy = "pairing" THEN "deny-with-pairing"
    ELSE IF dmPolicy = "open" \/ allowlisted THEN "allow"
    ELSE "deny-silent"

DmDecision(dmPolicy, allowlisted) ==
    LET dmAllowed == IF dmPolicy = "open" THEN TRUE ELSE allowlisted
    IN  IF dmPolicy = "disabled" THEN "deny-silent"
        ELSE IF ~dmAllowed
        THEN IF dmPolicy = "pairing" THEN "deny-with-pairing" ELSE "deny-silent"
        ELSE "allow"

GroupDecisionEmptyListAllows(groupPolicy, effectiveGroupAllow, sender) ==
    IF groupPolicy = "disabled" THEN "deny-silent"
    ELSE IF groupPolicy = "allowlist"
            /\ Len(effectiveGroupAllow) > 0
            /\ ~isSignalSenderAllowed(sender, effectiveGroupAllow)
    THEN "deny-silent"
    ELSE "allow"

\* handleEvent, group policy.
GroupDecision(groupPolicy, effectiveGroupAllow, sender) ==
    IF groupPolicy = "disabled" THEN "deny-silent"
    ELSE IF groupPolicy = "allowlist"
            /\ (Len(effectiveGroupAllow) = 0 \/ ~isSignalSenderAllowed(sender, effectiveGroupAllow))
    THEN "deny-silent"
    ELSE "allow"

CommandAuthorizedFollowsRead(isGroup, effectiveGroupAllow, sender, dmAllowed) == TRUE

\* handleEvent: the command-authorized flag of an admitted message.
CommandAuthorized(isGroup, effectiveGroupAllow, sender, dmAllowed) ==
    IF isGroup
    THEN IF Len(effectiveGroupAllow) > 0
         THEN isSignalSenderAllowed(sender, effectiveGroupAllow) ELSE TRUE
    ELSE dmAllowed

FirstAttachment(dataMessage) ==
    IF Len(dataMessage.attachments) > 0 THEN << dataMessage.attachments[1] >> ELSE <<>>

NeedsFetch(dataMessage) ==
    /\ Some(FirstAttachment(dataMessage))
    /\ Truthy(FirstAttachment(dataMessage)[1].id)
    /\ ~IgnoreAttachments

\* media.mediaKindFromMime
mediaKindFromMime(mediaType) == IF mediaType = <<"image/png">> THEN <<"image">> ELSE NULL

\* handleEvent from the end of the attachment step to the next await.
BodyStep(h, mediaPath, mediaType) ==
    LET dataMessage == DataMessageOf(h.frame.envelope[1])[1]
        messageText == IF dataMessage.message = NULL THEN <<>> ELSE Trim(dataMessage.message)
        kind == mediaKindFromMime(mediaType)
        placeholder == IF kind # NULL THEN <<"<media:">> \o kind \o <<">">>
                       ELSE IF Len(dataMessage.attachments) > 0 THEN <<"<media:attachment>">>
                       ELSE <<>>
        quoteText == IF dataMessage.quote = NULL THEN <<>> ELSE Trim(dataMessage.quote)
        bodyText == IF Truthy(messageText) THEN messageText
                    ELSE IF Truthy(placeholder) THEN placeholder
                    ELSE quoteText
        h1 == [h EXCEPT !.media = mediaPath, !.body = bodyText]
    IN  IF ~Truthy(bodyText) THEN Finished(h1, "emptyBody")
        ELSE IF ~h.isGroup THEN [h1 EXCEPT !.pc = "lastRoute", !.lastRoute = 1]
        ELSE [h1 EXCEPT !.pc = "dispatch", !.dispatch = 1]

\* handleEvent from the store read's result to the next await.
AfterStoreRead(h, storeAllowFrom) ==
    LET sender == h.sender
        dataMessage == DataMessageOf(h.frame.envelope[1])[1]
        effectiveDmAllow == AllowFrom \o storeAllowFrom
        effectiveGroupAllow == GroupAllowFrom \o storeAllowFrom
        allowlisted == isSignalSenderAllowed(sender, effectiveDmAllow)
        dmAllowed == IF DmPolicy = "open" THEN TRUE ELSE allowlisted
        decision == IF h.isGroup THEN GroupDecision(GroupPolicy, effectiveGroupAllow, sender)
                    ELSE DmDecision(DmPolicy, allowlisted)
        h1 == [h EXCEPT !.decision = decision, !.storeAllow = storeAllowFrom]
    IN  IF decision = "deny-silent" THEN Finished(h1, "message")
        ELSE IF decision = "deny-with-pairing"
        THEN [h1 EXCEPT !.pc = "upsert", !.upserts = 1]
        ELSE LET h2 == [h1 EXCEPT !.cmdAuth = CommandAuthorized(h.isGroup,
                                       effectiveGroupAllow, sender, dmAllowed)]
             IN  IF NeedsFetch(dataMessage) THEN [h2 EXCEPT !.pc = "fetch"]
                 ELSE BodyStep(h2, FALSE, NULL)

StoreReadDoneFailureRejects(k, ok) ==
    /\ hs[k].pc = "storeRead"
    /\ hs' = [hs EXCEPT ![k] = IF ok THEN AfterStoreRead(hs[k], allowStore) ELSE Rejected(@)]
    /\ UNCHANGED << config, traffic, storeVars, sysEvents, sink, nFrames, monVars >>

StoreReadDoneCached(k, ok) ==
    /\ hs[k].pc = "storeRead"
    /\ LET cached == IF k > 1 /\ hs[1].path = "message" /\ hs[1].pc # "storeRead"
                     THEN hs[1].storeAllow ELSE allowStore
       IN  hs' = [hs EXCEPT ![k] = AfterStoreRead(hs[k], IF ok THEN cached ELSE <<>>)]
    /\ UNCHANGED << config, traffic, storeVars, sysEvents, sink, nFrames, monVars >>

\* readProviderAllowFromStore settles: with the stored list, or with a
\* failure that the handler turns into the empty list.
StoreReadDone(k, ok) ==
    /\ hs[k].pc = "storeRead"
    /\ hs' = [hs EXCEPT ![k] = AfterStoreRead(hs[k], IF ok THEN allowStore ELSE <<>>)]
    /\ UNCHANGED << config, traffic, storeVars, sysEvents, sink, nFrames, monVars >>

SendsPairingReplyAlways(created) == TRUE

SendsPairingReply(created) == created

\* pairing-store.upsertProviderPairingRequest: created only for an id that is
\* not pending yet.
upsertProviderPairingRequest(requests, id) ==
    [ created |-> id \notin requests, requests |-> requests \cup {id} ]

\* The upsert settles; the handler sends the pairing reply for a new request.
UpsertDone(k, ok) ==
    /\ hs[k].pc = "upsert"
    /\ IF ok
       THEN LET id == formatSignalSenderId(hs[k].sender)
                result == upsertProviderPairingRequest(pending, id)
                created == result.created
            IN  /\ pending' = result.requests
                /\ hs' = [hs EXCEPT ![k] =
                        IF SendsPairingReply(created)
                        THEN [@ EXCEPT !.pc = "pairingSend", !.created = created, !.sends = 1]
                        ELSE [Finished(@, "message") EXCEPT !.created = created]]
       ELSE /\ hs' = [hs EXCEPT ![k] = Rejected(@)]
            /\ UNCHANGED pending
    /\ AfterSettle(~ok)
    /\ UNCHANGED << config, traffic, allowStore, sysEvents, sink, nFrames >>

\* sendMessageSignal of the pairing reply settles; a failure is caught.
PairingSendDone(k, ok) ==
    /\ hs[k].pc = "pairingSend"
    /\ hs' = [hs EXCEPT ![k] = IF ok THEN Finished(@, "message")
                               ELSE [Finished(@, "message") EXCEPT !.logged = @ \cup {"pairingReply"}]]
    /\ UNCHANGED << config, traffic, storeVars, sysEvents, sink, nFrames, monVars >>

FetchDoneRejects(k, outcome) ==
    /\ hs[k].pc = "fetch"
    /\ LET attachment == FirstAttachment(DataMessageOf(hs[k].frame.envelope[1])[1])[1]
           tooBig == attachment.size # 0 /\ attachment.size > MediaMaxBytes
       IN  /\ tooBig => outcome = "throws"
           /\ hs' = [hs EXCEPT ![k] =
                  IF outcome = "fetched"
                  THEN BodyStep(@, TRUE, attachment.contentType)
                  ELSE IF outcome = "null" THEN BodyStep(@, FALSE, NULL)
                  ELSE Rejected([@ EXCEPT !.logged = @ \cup {"attachment"}])]
    /\ UNCHANGED << config, traffic, storeVars, sysEvents, sink, nFrames, monVars >>

\* fetchAttachment settles: a saved file, nothing, or an error that is caught.
FetchDone(k, outcome) ==
    /\ hs[k].pc = "fetch"
    /\ LET attachment == FirstAttachment(DataMessageOf(hs[k].frame.envelope[1])[1])[1]
           tooBig == attachment.size # 0 /\ attachment.size > MediaMaxBytes
       IN  /\ tooBig => outcome = "throws"
           /\ hs' = [hs EXCEPT ![k] =
                  IF outcome = "fetched"
                  THEN BodyStep(@, TRUE, attachment.contentType)
                  ELSE IF outcome = "null" THEN BodyStep(@, FALSE, NULL)
                  ELSE BodyStep([@ EXCEPT !.logged = @ \cup {"attachment"}], FALSE, NULL)]
    /\ UNCHANGED << config, traffic, storeVars, sysEvents, sink, nFrames, monVars >>

\* updateLastRoute settles.
LastRouteDone(k, ok) ==
    /\ hs[k].pc = "lastRoute"
    /\ hs' = [hs EXCEPT ![k] = IF ok THEN [@ EXCEPT !.pc = "dispatch", !.dispatch = 1]
                               ELSE Rejected(@)]
    /\ AfterSettle(~ok)
    /\ UNCHANGED << config, traffic, storeVars, sysEvents, sink, nFrames >>

\* dispatchReplyFromConfig settles.
DispatchDone(k, ok) ==
    /\ hs[k].pc = "dispatch"
    /\ hs' = [hs EXCEPT ![k] = IF ok THEN Finished(@, "message") ELSE Rejected(@)]
    /\ AfterSettle(~ok)
    /\ UNCHANGED << config, traffic, storeVars, sysEvents, sink, nFrames >>

\* The owner approves a pending pairing request: the pairing store moves the
\* id to the persisted allow-list.
Approve(id) ==
    /\ id \in pending
    /\ pending' = pending \ {id}
    /\ allowStore' = Append(allowStore, id)
    /\ UNCHANGED << config, traffic, handlerVars, monVars >>

\* -------------------------------------------------- monitorSignalProvider
\* The catch clause: an error leaves the function as a normal return when the
\* abort signal is raised, and is rethrown otherwise.
CatchOutcomeRethrow(isAborted) == "threw"

CatchOutcomeSwallowsAll(isAborted) == "returned"

CatchOutcome(isAborted) == IF isAborted THEN "returned" ELSE "threw"

FinallyDetachesOnly(outcome) ==
    /\ monPc' = outcome
    /\ listener' = FALSE
    /\ daemon' = daemon

\* The finally clause: detach the abort listener and stop a spawned daemon.
Finally(outcome) ==
    /\ monPc' = outcome
    /\ listener' = FALSE
    /\ daemon' = IF daemon = "none" THEN "none" ELSE "stopped"

\* monitorSignalProvider is called: spawn the daemon when autoStart is set,
\* attach the abort listener, enter the readiness wait or the stream loop.
Start ==
    /\ monPc = "idle"
    /\ daemon' = IF AutoStart THEN "running" ELSE "none"
    /\ listener' = TRUE
    /\ monPc' = IF AutoStart THEN "waitReady" ELSE "loopTop"
    /\ UNCHANGED << config, traffic, storeVars, handlerVars,
                    aborted, connects, failures, polls >>

\* waitForSignalDaemonReady, top of its loop: the time is up after MaxPolls
\* failed polls; before that a raised abort signal ends the wait quietly.
WaitTop ==
    /\ monPc = "waitReady"
    /\ IF polls >= MaxPolls
       THEN Finally(CatchOutcome(aborted)) /\ UNCHANGED polls
       ELSE /\ monPc' = IF aborted THEN "loopTop" ELSE "readyCheck"
            /\ polls' = IF aborted THEN 0 ELSE polls
            /\ UNCHANGED << daemon, listener >>
    /\ UNCHANGED << config, traffic, storeVars, handlerVars,
                    aborted, connects, failures >>

\* signalCheck settles, followed by the 150ms sleep when the daemon is not up.
ReadyCheckDone(ok) ==
    /\ monPc = "readyCheck"
    /\ monPc' = IF ok THEN "loopTop" ELSE "waitReady"
    /\ polls' = IF ok THEN 0 ELSE polls + 1
    /\ UNCHANGED << config, traffic, storeVars, handlerVars,
                    aborted, connects, failures, daemon, listener >>

\* runSignalSseLoop, loop boundary: stop when the abort signal is raised, else
\* open the event stream.
LoopStopsNever(isAborted) == FALSE

LoopStops(isAborted) == isAborted

LoopTop ==
    /\ monPc = "loopTop"
    /\ IF LoopStops(aborted)
       THEN /\ Finally("returned")
            /\ UNCHANGED connects
       ELSE /\ connects < MaxConnects
            /\ connects' = connects + 1
            /\ monPc' = "streaming"
            /\ UNCHANGED << daemon, listener >>
    /\ UNCHANGED << config, traffic, storeVars, handlerVars,
                    aborted, failures, polls >>

StreamFailPropagates ==
    /\ monPc = "streaming"
    /\ traffic.unstable
    /\ ~aborted
    /\ failures' = failures + 1
    /\ Finally(CatchOutcome(aborted))
    /\ UNCHANGED << config, traffic, storeVars, handlerVars, aborted, connects, polls >>

\* The open stream drops: the loop logs it and waits out the backoff.
StreamFail ==
    /\ monPc = "streaming"
    /\ traffic.unstable
    /\ ~aborted
    /\ failures' = failures + 1
    /\ monPc' = "backoff"
    /\ UNCHANGED << config, traffic, storeVars, handlerVars,
                    aborted, connects, polls, daemon, listener >>

\* The abort signal closes the open stream; the loop goes back to its boundary.
StreamAborted ==
    /\ monPc = "streaming"
    /\ aborted
    /\ monPc' = "loopTop"
    /\ UNCHANGED << config, traffic, storeVars, handlerVars,
                    aborted, connects, failures, polls, daemon, listener >>

\* The backoff wait ends, by its timer or early by the abort signal.
BackoffDone ==
    /\ monPc = "backoff"
    /\ monPc' = "loopTop"
    /\ UNCHANGED << config, traffic, storeVars, handlerVars,
                    aborted, connects, failures, polls, daemon, listener >>

\* The caller raises the abort signal; an attached listener stops the daemon.
Abort ==
    /\ traffic.unstable
    /\ ~aborted
    /\ aborted' = TRUE
    /\ daemon' = IF listener /\ daemon # "none" THEN "stopped" ELSE daemon
    /\ UNCHANGED << config, traffic, storeVars, handlerVars,
                    monPc, connects, failures, polls, listener >>

\* ------------------------------------------------- configurations, traffic
PhoneA == <<"+", "1">>
PhoneB == <<"+", "2">>
PhoneC == <<"+", "3">>
UuidA == <<"a">>
UuidB == <<"b">>
UuidC == <<"c">>
GroupG == <<"g">>
Check == <<"ok-emoji">>

NoReaction == <<>>

Reaction(author, uuid, isRemove, groupId, ts) ==
    << [ emoji |-> Check, targetAuthor |-> author, targetAuthorUuid |-> uuid,
         targetSentTimestamp |-> ts, isRemove |-> isRemove,
         groupId |-> groupId, groupName |-> NULL ] >>

NoData == <<>>

Data(message, attachments, groupId) ==
    << [ message |-> message, attachments |-> attachments, groupId |-> groupId,
         groupName |-> NULL, quote |-> NULL ] >>

Attachment(size) == [ id |-> <<"att">>, contentType |-> <<"image/png">>, size |-> size ]

Envelope(number, uuid, ts, data, reaction) ==
    [ sourceNumber |-> number, sourceUuid |-> uuid, sourceName |-> <<"Ada">>,
      timestamp |-> ts, dataMessage |-> data, editMessage |-> <<>>,
      syncMessage |-> FALSE, reactionMessage |-> reaction ]

\* An edited message: the conversational payload sits in editMessage.
Edit(envelope, data) ==
    [envelope EXCEPT !.dataMessage = <<>>, !.editMessage = << [ dataMessage |-> data ] >>]

\* The echo of something sent from another device of the account.
Sync(envelope) == [envelope EXCEPT !.syncMessage = TRUE]

Frame(envelope) ==
    [ event |-> "receive", data |-> "json", exception |-> FALSE, envelope |-> << envelope >> ]

Hello == <<"hello">>

\* Reaction-only frames: every combination of target fields that the decision
\* distinguishes, additions and removals, direct and group, a phone sender,
\* a uuid sender and the bot's own number.
ReactionFeed ==
    { Frame(Envelope(PhoneA, NULL, 1, NoData, Reaction(a, u, FALSE, NULL, 2))) :
        a \in {NULL, <<"2">>, PhoneC}, u \in {NULL, UuidB} }
    \cup
    { Frame(Envelope(PhoneA, NULL, 1, NoData, Reaction(<<"2">>, UuidB, TRUE, NULL, 2))),
      Frame(Envelope(PhoneA, NULL, 1, NoData, Reaction(PhoneC, NULL, TRUE, NULL, 2))) }
    \cup
    { Frame(Envelope(PhoneA, NULL, 3, NoData, Reaction(PhoneB, UuidB, FALSE, NULL, 2))),
      Frame(Envelope(PhoneB, NULL, 1, NoData, Reaction(PhoneB, UuidB, FALSE, NULL, 2))),
      Frame(Envelope(NULL, UuidA, 1, NoData, Reaction(PhoneB, NULL, FALSE, GroupG, 0))) }

\* Direct messages: a phone sender, a uuid sender, a message without any
\* body and a message from the bot's own number.
DirectFeed ==
    { Frame(Envelope(PhoneA, NULL, 1, Data(Hello, <<>>, NULL), NoReaction)),
      Frame(Envelope(NULL, UuidA, 1, Data(Hello, <<>>, NULL), NoReaction)),
      Frame(Envelope(PhoneA, UuidA, 2, Data(NULL, <<>>, NULL), NoReaction)),
      Frame(Envelope(PhoneB, NULL, 1, Data(Hello, <<>>, NULL), NoReaction)) }

\* Messages with an attachment, under and over the size cap.
MediaFeed ==
    { Frame(Envelope(PhoneA, NULL, 1, Data(NULL, << Attachment(1024) >>, NULL), NoReaction)),
      Frame(Envelope(PhoneA, NULL, 1, Data(NULL, << Attachment(9 * 1024 * 1024) >>, NULL),
                     NoReaction)) }

\* One sender writing again and again, between the stream's keepalives.
RepeatFeed ==
    { Frame(Envelope(PhoneA, NULL, 1, Data(Hello, <<>>, NULL), NoReaction)),
      [ event |-> "keepalive", data |-> "empty", exception |-> FALSE, envelope |-> <<>> ] }

\* A reaction that the provider delivers again, also under another envelope
\* timestamp and with the target named by its phone only, and one in a group.
RedeliveryFeed ==
    { Frame(Envelope(PhoneA, NULL, 1, NoData, Reaction(PhoneB, UuidB, FALSE, NULL, 2))),
      Frame(Envelope(PhoneA, NULL, 3, NoData, Reaction(PhoneB, NULL, FALSE, NULL, 2))),
      Frame(Envelope(PhoneA, NULL, 1, NoData, Reaction(PhoneB, UuidB, FALSE, GroupG, 2))) }

\* A frame that does not parse, among well-formed ones.
OddFeed ==
    { [ event |-> "receive", data |-> "garbage", exception |-> FALSE, envelope |-> <<>> ],
      Frame(Envelope(PhoneA, NULL, 1, Data(Hello, <<>>, NULL), NoReaction)) }

\* A reaction to a message of the bot: alone in its frame, beside a message,
\* and beside an edited message.
BothFeed ==
    { Frame(Envelope(PhoneA, NULL, 1, NoData, Reaction(PhoneB, NULL, FALSE, NULL, 2))),
      Frame(Envelope(PhoneA, NULL, 1, Data(Hello, <<>>, NULL),
                     Reaction(PhoneB, NULL, FALSE, NULL, 2))),
      Frame(Edit(Envelope(PhoneA, NULL, 1, NoData, Reaction(PhoneB, NULL, FALSE, NULL, 2)),
                 Data(Hello, <<>>, NULL))) }

\* Sync echoes that carry a message or a reaction, and a plain message.
SyncFeed ==
    { Frame(Sync(Envelope(PhoneA, NULL, 1, Data(Hello, <<>>, NULL), NoReaction))),
      Frame(Sync(Envelope(PhoneA, NULL, 1, NoData, Reaction(PhoneB, NULL, FALSE, NULL, 2)))),
      Frame(Envelope(PhoneA, NULL, 1, Data(Hello, <<>>, NULL), NoReaction)) }

\* A captioned attachment over the size cap from a sender the owner has
\* approved.
FaultFeed ==
    { Frame(Envelope(PhoneA, NULL, 1, Data(Hello, << Attachment(9 * 1024 * 1024) >>, NULL),
                     NoReaction)) }

\* Group messages: from a phone sender and from a sender known by uuid only;
\* and an edited message that comes from the bot's own number.
GroupFeed ==
    { Frame(Envelope(PhoneA, NULL, 1, Data(Hello, <<>>, GroupG), NoReaction)),
      Frame(Envelope(NULL, UuidA, 1, Data(Hello, <<>>, GroupG), NoReaction)),
      Frame(Edit(Envelope(PhoneB, UuidB, 1, NoData, NoReaction), Data(Hello, <<>>, NULL))) }

Frames(feed) ==
    CASE feed = "reactions" -> ReactionFeed
      [] feed = "group" -> GroupFeed
      [] feed = "repeat" -> RepeatFeed
      [] feed = "both" -> BothFeed
      [] feed = "sync" -> SyncFeed
      [] feed = "faults" -> FaultFeed
      [] feed = "redelivery" -> RedeliveryFeed
      [] feed = "direct" -> DirectFeed
      [] feed = "media" -> MediaFeed
      [] feed = "odd" -> OddFeed

BaseConfig ==
    [ account |-> PhoneB, dmPolicy |-> "unset", groupPolicy |-> "unset",
      reactionNotifications |-> "unset", allowFrom |-> NoList, groupAllowFrom |-> NoList,
      reactionAllowlist |-> NoList, autoStart |-> FALSE, ignoreAttachments |-> FALSE ]

ReactionConfigs ==
    { [BaseConfig EXCEPT !.account = a, !.reactionNotifications = m] :
        a \in {NULL, PhoneB, UuidB, UuidPrefix \o UuidB},
        m \in {"unset", "off", "own", "allowlist", "all"} }
    \cup
    { [BaseConfig EXCEPT !.account = a, !.reactionNotifications = "allowlist",
                         !.reactionAllowlist = << PhoneA >>] :
        a \in {NULL, PhoneB, UuidB, UuidPrefix \o UuidB} }
    \cup
    { [BaseConfig EXCEPT !.account = <<"2">>, !.reactionNotifications = "own"],
      [BaseConfig EXCEPT !.reactionNotifications = "allowlist",
                         !.reactionAllowlist = << <<"*">> >>] }

DirectConfigs ==
    { [BaseConfig EXCEPT !.dmPolicy = p, !.allowFrom = l] :
        p \in {"open", "pairing", "disabled", "allowlist"},
        l \in {NoList, << PhoneA >>, << <<"*">> >>} }
    \cup { BaseConfig }

\* Group policies, with and without a static group list, the fallback of the
\* group list to allowFrom, and an account written without its "+".
GroupConfigs ==
    { [BaseConfig EXCEPT !.groupPolicy = p, !.groupAllowFrom = l] :
        p \in {"unset", "open", "disabled", "allowlist"},
        l \in {NoList, << PhoneA >>} }
    \cup
    { [BaseConfig EXCEPT !.groupPolicy = "allowlist", !.allowFrom = << PhoneA >>],
      [BaseConfig EXCEPT !.account = <<" ", "2">>] }

\* Every reaction mode under an open direct-message policy, and the mode all
\* under the default policy.
BothConfigs ==
    { [BaseConfig EXCEPT !.dmPolicy = "open", !.reactionNotifications = m,
                         !.reactionAllowlist = << PhoneA >>] :
        m \in {"off", "own", "allowlist", "all"} }
    \cup
    { [BaseConfig EXCEPT !.reactionNotifications = "all"] }

\* Everyone may write and every reaction is notified.
OpenConfig ==
    [BaseConfig EXCEPT !.dmPolicy = "open", !.reactionNotifications = "all"]

MediaConfigs ==
    { [BaseConfig EXCEPT !.dmPolicy = "open", !.ignoreAttachments = i] : i \in BOOLEAN }

SupervisorConfigs ==
    { [BaseConfig EXCEPT !.autoStart = s] : s \in BOOLEAN }

\* The runs explored: a configuration, the traffic it meets (which frames,
\* whether the stream can break and the caller cancel, whether downstream
\* calls can reject) and the initial content of the persisted allow-list.
Scenarios ==
    { << c, [feed |-> "reactions", unstable |-> FALSE, faulty |-> FALSE], <<>> >> : c \in ReactionConfigs }
    \cup
    { << c, [feed |-> "direct", unstable |-> FALSE, faulty |-> FALSE], <<>> >> :
        c \in DirectConfigs }
    \cup
    { << BaseConfig, [feed |-> "repeat", unstable |-> FALSE, faulty |-> TRUE], <<>> >> }
    \cup
    { << c, [feed |-> "both", unstable |-> FALSE, faulty |-> FALSE], <<>> >> : c \in BothConfigs }
    \cup
    { << OpenConfig, [feed |-> "sync", unstable |-> FALSE, faulty |-> FALSE], <<>> >> }
    \cup
    { << BaseConfig, [feed |-> "faults", unstable |-> FALSE, faulty |-> TRUE], << PhoneA >> >> }
    \cup
    { << c, [feed |-> "direct", unstable |-> FALSE, faulty |-> FALSE], << UuidPrefix \o UuidA >> >> :
        c \in { d \in DirectConfigs : d.allowFrom = NoList /\ d.dmPolicy \in {"pairing", "allowlist"} } }
    \cup
    { << c, [feed |-> "group", unstable |-> FALSE, faulty |-> FALSE], <<>> >> : c \in GroupConfigs }
    \cup
    { << c, [feed |-> "group", unstable |-> FALSE, faulty |-> FALSE], << UuidPrefix \o UuidA >> >> :
        c \in { d \in GroupConfigs : d.groupPolicy = "allowlist" /\ d.allowFrom = NoList } }
    \cup
    { << c, [feed |-> "media", unstable |-> FALSE, faulty |-> ~c.ignoreAttachments], <<>> >> :
        c \in MediaConfigs }
    \cup
    { << c, [feed |-> "odd", unstable |-> TRUE, faulty |-> FALSE],
         << PhoneA >> >> : c \in SupervisorConfigs }
    \cup
    { << BaseConfig, [feed |-> "redelivery", unstable |-> TRUE, faulty |-> FALSE], <<>> >> }

Init ==
    /\ \E sc \in Scenarios :
          /\ config = sc[1]
          /\ traffic = sc[2]
          /\ allowStore = sc[3]
    /\ pending = {}
    /\ sysEvents = <<>>
    /\ sink = {}
    /\ hs = [k \in 1..MaxFrames |-> IdleHandler]
    /\ nFrames = 0
    /\ monPc = "idle"
    /\ aborted = FALSE
    /\ connects = 0
    /\ failures = 0
    /\ polls = 0
    /\ daemon = "none"
    /\ listener = FALSE

\* How an awaited call can settle in this run: the store, the send and the
\* downstream pipeline reject only where the traffic says they are faulty.
Settles == IF traffic.faulty THEN BOOLEAN ELSE {TRUE}

Outcomes == IF traffic.faulty THEN {"fetched", "null", "throws"} ELSE {"fetched"}

Next ==
    \/ Start
    \/ WaitTop
    \/ \E ok \in BOOLEAN : ReadyCheckDone(ok)
    \/ LoopTop
    \/ StreamFail
    \/ StreamAborted
    \/ BackoffDone
    \/ Abort
    \/ \E f \in Frames(traffic.feed) : Receive(f)
    \/ \E k \in 1..MaxFrames, ok \in Settles : StoreReadDone(k, ok)
    \/ \E k \in 1..MaxFrames, ok \in Settles : UpsertDone(k, ok)
    \/ \E k \in 1..MaxFrames, ok \in Settles : PairingSendDone(k, ok)
    \/ \E k \in 1..MaxFrames, o \in Outcomes : FetchDone(k, o)
    \/ \E k \in 1..MaxFrames, ok \in Settles : LastRouteDone(k, ok)
    \/ \E k \in 1..MaxFrames, ok \in Settles : DispatchDone(k, ok)
    \/ \E id \in pending : Approve(id)

Spec == Init /\ [][Next]_vars

\* The runs with an unstable stream and a caller that may cancel, and the
\* run whose store and network calls may fail, under the
\* scheduling the runtime gives: a called function starts, a settled promise
\* resumes its awaiter, signalCheck settles within its own timeout, the
\* backoff timer fires, and an aborted stream closes.
InitLive == Init /\ (traffic.unstable \/ traffic.feed = "faults")

Fairness ==
    /\ WF_vars(Start)
    /\ WF_vars(WaitTop)
    /\ WF_vars(\E ok \in BOOLEAN : ReadyCheckDone(ok))
    /\ WF_vars(LoopTop)
    /\ WF_vars(StreamAborted)
    /\ WF_vars(BackoffDone)

SpecLive == InitLive /\ [][Next]_vars /\ Fairness

\* The runs that receive messages over an unstable stream or with failing
\* store and network calls, under the one
\* assumption that the open stream hands over the frames that arrive on it;
\* nothing is assumed about when, or whether, the calls a handler is waiting
\* for settle.
InitFlow == Init /\ traffic.feed \in {"odd", "faults"}

FlowFairness == WF_vars(\E f \in Frames(traffic.feed) : Receive(f))

SpecFlow == InitFlow /\ [][Next]_vars /\ FlowFairness

\* ------------------------------------------------------------- properties
Handlers == 1..MaxFrames

Started(k) == hs[k].pc # "idle"

HasEnvelope(k) == Started(k) /\ Some(hs[k].frame.envelope)

EnvelopeOf(k) == hs[k].frame.envelope[1]

\* The frame of handler k reached sender resolution and was not dropped as a
\* sync echo or as a message from the bot's own number.
Resolved(k) ==
    /\ HasEnvelope(k)
    /\ ~EnvelopeOf(k).syncMessage
    /\ resolveSignalSender(EnvelopeOf(k)).kind # "none"
    /\ ~IsSelfMessage(resolveSignalSender(EnvelopeOf(k)))

ReactionOnly(k) ==
    /\ HasEnvelope(k)
    /\ Some(EnvelopeOf(k).reactionMessage)
    /\ ~Some(EnvelopeOf(k).dataMessage)
    /\ ~(Some(EnvelopeOf(k).editMessage) /\ Some(EnvelopeOf(k).editMessage[1].dataMessage))

ReactionOf(k) == EnvelopeOf(k).reactionMessage[1]

NotificationsOf(k) == { i \in DOMAIN sysEvents : sysEvents[i].frameNo = k }

IsE164(s) == Truthy(s) /\ Len(s) > 1 /\ s = normalizeE164(s)

OwnMode == config.reactionNotifications \in {"own", "unset"}

\* The reaction of frame k names its target by a uuid and by a phone number
\* that normalizes to the configured E.164 account.
BothTargetsPhoneMatches(k) ==
    /\ ReactionOnly(k)
    /\ Resolved(k)
    /\ ~ReactionOf(k).isRemove
    /\ IsE164(Account)
    /\ Truthy(Trim(ReactionOf(k).targetAuthorUuid))
    /\ Truthy(Trim(ReactionOf(k).targetAuthor))
    /\ normalizeE164(ReactionOf(k).targetAuthor) = Account

NotificationOf(k) == sysEvents[CHOOSE i \in DOMAIN sysEvents : sysEvents[i].frameNo = k].event

PhoneSenderDirectBothTargets(k) ==
    /\ OwnMode
    /\ BothTargetsPhoneMatches(k)
    /\ resolveSignalSender(EnvelopeOf(k)).kind = "phone"
    /\ ~Truthy(ReactionOf(k).groupId)

IsRemoval(k) ==
    /\ HasEnvelope(k)
    /\ Some(EnvelopeOf(k).reactionMessage)
    /\ ReactionOf(k).isRemove

\* C3: no notification is ever enqueued for a reaction marked isRemove,
\* whatever the mode, the targets, the sender and the allow-list.
C3_RemovalNeverNotifies ==
    \A k \in Handlers :
        IsRemoval(k) => hs[k].enq = 0 /\ NotificationsOf(k) = {}

C3_Witness ==
    \E k \in Handlers :
        /\ IsRemoval(k)
        /\ Resolved(k)
        /\ hs[k].path = "reactionRemoved"
        /\ ReactionMode = "all"

SenderIdOf(k) == formatSignalSenderId(hs[k].sender)

RECURSIVE SumSends(_, _)
SumSends(id, ks) ==
    IF ks = {} THEN 0
    ELSE LET k == CHOOSE x \in ks : TRUE
         IN  (IF hs[k].path = "message" /\ SenderIdOf(k) = id THEN hs[k].sends ELSE 0)
             + SumSends(id, ks \ {k})

\* Pairing replies sent so far to the sender with canonical id `id`.
PairingRepliesTo(id) == SumSends(id, Handlers)

SenderIds == { SenderIdOf(k) : k \in { x \in Handlers : hs[x].path = "message" } }

Approved(id) == \E i \in DOMAIN allowStore : allowStore[i] = id

\* The upsert of handler k has returned.
UpsertReturned(k) ==
    hs[k].decision = "deny-with-pairing" /\ hs[k].pc \in {"pairingSend", "done"}

\* C4: under dmPolicy=pairing, whatever the number of direct messages of one
\* unapproved sender and however their handlers interleave, exactly one
\* pairing reply is sent: the handler whose upsert returned created=true
\* sends, a handler that got created=false sends nothing.
C4_OnePairingReplyPerSender ==
    \A id \in SenderIds :
        (DmPolicy = "pairing" /\ ~Approved(id)) =>
            /\ PairingRepliesTo(id) <= 1
            /\ (\E k \in Handlers : SenderIdOf(k) = id /\ UpsertReturned(k))
                   => PairingRepliesTo(id) = 1
            /\ \A k \in Handlers :
                   (SenderIdOf(k) = id /\ UpsertReturned(k)) =>
                       (hs[k].sends = 1 <=> hs[k].created)

C4_Witness ==
    \E k1, k2 \in Handlers :
        /\ k1 # k2
        /\ DmPolicy = "pairing"
        /\ SenderIdOf(k1) = SenderIdOf(k2)
        /\ ~Approved(SenderIdOf(k1))
        /\ UpsertReturned(k1) /\ UpsertReturned(k2)
        /\ hs[k2].created /\ ~hs[k1].created
        /\ PairingRepliesTo(SenderIdOf(k1)) = 1

\* Frame k carries a conversational payload outside a group.
DirectMessage(k) ==
    /\ HasEnvelope(k)
    /\ Some(DataMessageOf(EnvelopeOf(k)))
    /\ ~Truthy(DataMessageOf(EnvelopeOf(k))[1].groupId)
    /\ ~EnvelopeOf(k).syncMessage
    /\ resolveSignalSender(EnvelopeOf(k)).kind # "none"

PolicyDone(k) == hs[k].path = "message" /\ hs[k].pc # "storeRead"

HandlerEnded(k) == hs[k].pc \in {"done", "failed"}

\* The sender of frame k is in the effective allow-list: the static list
\* joined with the persisted list as the handler read it.
InEffectiveDmAllow(k) ==
    isSignalSenderAllowed(resolveSignalSender(EnvelopeOf(k)),
        AllowFrom \o (IF PolicyDone(k) THEN hs[k].storeAllow ELSE <<>>))

\* C5 as stated: under dmPolicy=pairing a direct message from a sender in the
\* effective allow-list never causes an upsert or a pairing reply, and the
\* message goes to the reply pipeline.
C5_AllowlistedGoesToPipeline ==
    \A k \in Handlers :
        (DirectMessage(k) /\ DmPolicy = "pairing" /\ InEffectiveDmAllow(k)) =>
            /\ hs[k].upserts = 0
            /\ hs[k].sends = 0
            /\ hs[k].pc = "done" => hs[k].dispatch = 1

\* C5 amended: such a message never causes an upsert or a pairing reply; when
\* it is not from the bot's own number the access decision is allow, and the
\* message is dispatched to the reply pipeline when it has a body.
C5_AllowlistedNeverPairs ==
    \A k \in Handlers :
        (DmPolicy = "pairing" /\ DirectMessage(k) /\ InEffectiveDmAllow(k)) =>
            /\ hs[k].upserts = 0
            /\ hs[k].sends = 0
            /\ (Resolved(k) /\ PolicyDone(k)) => hs[k].decision = "allow"
            /\ (Resolved(k) /\ hs[k].pc = "done" /\ Truthy(hs[k].body)) => hs[k].dispatch = 1
            /\ (hs[k].pc = "done" /\ (~Resolved(k) \/ ~Truthy(hs[k].body)))
                   => hs[k].dispatch = 0

C5_Witness ==
    \E k \in Handlers :
        /\ DirectMessage(k)
        /\ DmPolicy = "pairing"
        /\ InEffectiveDmAllow(k)
        /\ hs[k].storeAllow # <<>>
        /\ ~isSignalSenderAllowed(hs[k].sender, AllowFrom)
        /\ hs[k].pc = "done"
        /\ hs[k].dispatch = 1

\* C6: a frame that carries only a reaction never triggers the conversational
\* path, notified or not: no store read, no upsert, no outbound send, no
\* last-route update and no reply dispatch happen for it.
C6_ReactionOnlyNoMessagePath ==
    \A k \in Handlers :
        ReactionOnly(k) =>
            /\ hs[k].pc = "done"
            /\ hs[k].storeReads = 0
            /\ hs[k].upserts = 0
            /\ hs[k].sends = 0
            /\ hs[k].lastRoute = 0
            /\ hs[k].dispatch = 0

C6_Witness ==
    \E k1, k2 \in Handlers :
        /\ ReactionOnly(k1) /\ hs[k1].path = "reactionNotified"
        /\ ReactionOnly(k2) /\ hs[k2].path = "reactionSilent"

\* C7: when the stream fails once and the cancellation is raised during the
\* following connection, the supervisor has made exactly one reconnect (two
\* connection attempts in all), and no connection attempt follows a
\* cancellation.
C7_OneReconnectThenStop ==
    /\ [][(~aborted /\ aborted' /\ monPc = "streaming" /\ failures = 1) => connects = 2]_vars
    /\ [][aborted => connects' = connects]_vars

C7_Witness ==
    /\ aborted
    /\ failures = 1
    /\ connects = 2
    /\ monPc = "returned"

\* C8: once the abort signal is raised, during the readiness wait, during
\* streaming or during a backoff wait, monitorSignalProvider makes no further
\* connection attempt, eventually returns, and returns normally.
C8_AbortStopsQuietly ==
    /\ [][aborted => connects' = connects]_vars
    /\ [][(aborted /\ monPc # "threw") => monPc' # "threw"]_vars
    /\ ((aborted /\ monPc # "threw") ~> monPc = "returned")

C8_Witness ==
    /\ aborted
    /\ polls = MaxPolls
    /\ monPc = "returned"
    /\ connects = 0

\* The decision table of the direct-message policy, in the claim's order.
DmTable(dmPolicy, allowlisted) ==
    IF dmPolicy = "disabled" THEN "deny-silent"
    ELSE IF allowlisted THEN "allow"
    ELSE IF dmPolicy = "open" THEN "allow"
    ELSE IF dmPolicy = "pairing" THEN "deny-with-pairing"
    ELSE "deny-silent"

\* C9: for a direct message with dmPolicy configured as open, pairing,
\* disabled or allowlist, the access decision is: disabled gives deny-silent
\* even for an allow-listed sender; else an allow-listed sender is allowed;
\* else open allows; else pairing gives deny-with-pairing; else deny-silent.
\* A denied message reaches neither the last-route update nor reply dispatch.
C9_DmDecisionTable ==
    \A k \in Handlers :
        (DirectMessage(k) /\ PolicyDone(k)
            /\ config.dmPolicy \in {"open", "pairing", "disabled", "allowlist"}) =>
            /\ hs[k].decision = DmTable(config.dmPolicy, InEffectiveDmAllow(k))
            /\ hs[k].upserts = (IF hs[k].decision = "deny-with-pairing" THEN 1 ELSE 0)
            /\ hs[k].decision # "allow" => hs[k].lastRoute = 0 /\ hs[k].dispatch = 0

C9_Witness ==
    \E k1, k2 \in Handlers :
        /\ config.dmPolicy = "disabled"
        /\ DirectMessage(k1) /\ PolicyDone(k1) /\ InEffectiveDmAllow(k1)
        /\ hs[k1].decision = "deny-silent"
        /\ DirectMessage(k2) /\ PolicyDone(k2) /\ ~InEffectiveDmAllow(k2)
        /\ hs[k2].decision = "deny-silent"

NoPairingNoDispatch(k) ==
    /\ hs[k].upserts = 0
    /\ hs[k].sends = 0
    /\ hs[k].lastRoute = 0
    /\ hs[k].dispatch = 0
    /\ PolicyDone(k) => hs[k].decision = "deny-silent"

\* C10 as stated: a direct message from a sender outside the effective
\* allow-list is denied silently when dmPolicy is allowlist and when it is
\* not configured: no upsert, no pairing reply, no dispatch.
C10_AllowlistOrUnsetDeniesSilently ==
    \A k \in Handlers :
        (DirectMessage(k) /\ Resolved(k) /\ ~InEffectiveDmAllow(k)
            /\ config.dmPolicy \in {"allowlist", "unset"}) => NoPairingNoDispatch(k)

\* C10 amended: with dmPolicy=allowlist such a message is denied silently (no
\* upsert, no pairing reply, no dispatch); with dmPolicy not configured the
\* policy defaults to pairing, so the decision is deny-with-pairing: a
\* pairing request is upserted and nothing is dispatched.
C10_AllowlistSilentUnsetPairs ==
    \A k \in Handlers :
        (PolicyDone(k) /\ DirectMessage(k) /\ Resolved(k) /\ ~InEffectiveDmAllow(k)) =>
            /\ config.dmPolicy = "allowlist" => NoPairingNoDispatch(k)
            /\ config.dmPolicy = "unset" =>
                   /\ hs[k].decision = "deny-with-pairing"
                   /\ hs[k].upserts = 1
                   /\ hs[k].lastRoute = 0
                   /\ hs[k].dispatch = 0

C10_Witness ==
    \E k \in Handlers :
        /\ DirectMessage(k) /\ Resolved(k) /\ PolicyDone(k) /\ ~InEffectiveDmAllow(k)
        /\ config.dmPolicy = "unset"
        /\ traffic.feed = "direct"
        /\ hs[k].pc = "done"
        /\ hs[k].sends = 1

\* Frame k carries a conversational payload addressed to a group, from a
\* sender that is resolved and is not the bot's own number.
GroupMessage(k) ==
    /\ Resolved(k)
    /\ Some(DataMessageOf(EnvelopeOf(k)))
    /\ Truthy(DataMessageOf(EnvelopeOf(k))[1].groupId)

\* The effective group allow-list of handler k: the static group list joined
\* with the persisted list as the handler read it.
EffectiveGroupAllowOf(k) == GroupAllowFrom \o hs[k].storeAllow

\* The decision table of the group policy.
GroupTable(policy, listEmpty, listed) ==
    CASE policy = "disabled" -> "deny-silent"
      [] policy = "allowlist" /\ (listEmpty \/ ~listed) -> "deny-silent"
      [] OTHER -> "allow"

\* C11: a group message is denied silently under groupPolicy=disabled whoever
\* sends it, and under groupPolicy=allowlist when the effective group
\* allow-list is empty or lacks the sender; it is allowed in every other case;
\* a denied group message is never dispatched and causes no pairing request
\* and no pairing reply.
C11_GroupDecisionTable ==
    \A k \in Handlers :
        (PolicyDone(k) /\ GroupMessage(k)) =>
            /\ hs[k].decision =
                   GroupTable(GroupPolicy, EffectiveGroupAllowOf(k) = <<>>,
                              isSignalSenderAllowed(resolveSignalSender(EnvelopeOf(k)),
                                                    EffectiveGroupAllowOf(k)))
            /\ hs[k].decision \in {"allow", "deny-silent"}
            /\ hs[k].upserts = 0
            /\ hs[k].sends = 0
            /\ hs[k].decision = "deny-silent" =>
                   /\ hs[k].pc = "done"
                   /\ hs[k].dispatch = 0
                   /\ hs[k].lastRoute = 0

C11_Witness ==
    \E k1, k2 \in Handlers :
        /\ GroupMessage(k1) /\ GroupMessage(k2)
        /\ GroupPolicy = "allowlist"
        /\ EffectiveGroupAllowOf(k1) # <<>>
        /\ hs[k1].decision = "deny-silent" /\ hs[k1].pc = "done"
        /\ hs[k2].decision = "allow" /\ hs[k2].dispatch = 1

\* The sender of frame k resolves to a phone identity equal to the
\* normalized configured account.
FromOwnAccount(k) ==
    /\ HasEnvelope(k)
    /\ ~EnvelopeOf(k).syncMessage
    /\ config.account # NULL
    /\ Truthy(Trim(config.account))
    /\ resolveSignalSender(EnvelopeOf(k)).kind = "phone"
    /\ resolveSignalSender(EnvelopeOf(k)).e164 = normalizeE164(Trim(config.account))

\* C12: an event whose sender resolves to the phone identity of the configured
\* account is dropped before any policy evaluation, whatever its payload: no
\* allow-list store read, no pairing upsert, no pairing reply, no
\* notification, no last-route update and no reply dispatch happen for it.
C12_OwnMessagesDropped ==
    \A k \in Handlers :
        FromOwnAccount(k) =>
            /\ hs[k].pc = "done"
            /\ hs[k].decision = "none"
            /\ hs[k].storeReads = 0
            /\ hs[k].upserts = 0
            /\ hs[k].sends = 0
            /\ hs[k].enq = 0
            /\ NotificationsOf(k) = {}
            /\ hs[k].lastRoute = 0
            /\ hs[k].dispatch = 0

C12_Witness ==
    \E k \in Handlers :
        /\ FromOwnAccount(k)
        /\ config.account # normalizeE164(config.account)
        /\ Some(EnvelopeOf(k).editMessage)
        /\ hs[k].path = "self"

\* Frame k is a reaction that was notified.
Notified(k) == ReactionOnly(k) /\ Cardinality(NotificationsOf(k)) = 1

\* What the contextKey is said to depend on: the event kind (always a
\* reaction that was added), the target message id, the sender id, the emoji
\* and the group id.
KeyFieldsOf(k) ==
    << MessageIdOf(ReactionOf(k)),
       formatSignalSenderId(resolveSignalSender(EnvelopeOf(k))),
       EmojiLabel(ReactionOf(k)),
       ReactionOf(k).groupId >>

\* C13: two notified reactions that agree on target message id, sender id,
\* emoji and group id get the same contextKey and the same session key,
\* whatever else differs in their frames and whichever connection delivered
\* them; the sink, idempotent per contextKey within a session, then stores at
\* most one notification for them.
C13_ContextKeyDeterministic ==
    /\ \A k1, k2 \in Handlers :
           (Notified(k1) /\ Notified(k2) /\ KeyFieldsOf(k1) = KeyFieldsOf(k2)) =>
               /\ NotificationOf(k1).contextKey = NotificationOf(k2).contextKey
               /\ NotificationOf(k1).sessionKey = NotificationOf(k2).sessionKey
               /\ Cardinality({ e \in sink :
                                  /\ e.contextKey = NotificationOf(k1).contextKey
                                  /\ e.sessionKey = NotificationOf(k1).sessionKey }) = 1
    /\ \A e1, e2 \in sink :
           (e1.contextKey = e2.contextKey /\ e1.sessionKey = e2.sessionKey) => e1 = e2

C13_Witness ==
    \E k1, k2 \in Handlers :
        /\ k1 # k2
        /\ Notified(k1) /\ Notified(k2)
        /\ hs[k1].frame = hs[k2].frame
        /\ hs[k1].conn # hs[k2].conn
        /\ Len(sysEvents) = 2
        /\ Cardinality(sink) = 1

\* The readiness wait of an auto-started daemon has run out of time without
\* one successful poll, and no cancellation has been raised.
ReadinessTimedOut == monPc = "waitReady" /\ polls >= MaxPolls /\ ~aborted

\* C14: when the auto-started daemon never becomes reachable within the
\* readiness timeout and no cancellation has been raised,
\* monitorSignalProvider raises an error to its caller, and the event stream
\* is never opened: no connection attempt was made and no frame was handled.
C14_ReadinessTimeoutIsFatal ==
    /\ [][(ReadinessTimedOut /\ monPc' # monPc) => monPc' = "threw"]_vars
    /\ [](monPc = "threw" => (connects = 0 /\ nFrames = 0))
    /\ [][monPc = "threw" => (monPc' = "threw" /\ connects' = 0 /\ nFrames' = 0)]_vars
    /\ (ReadinessTimedOut ~> (monPc = "threw" \/ aborted))

C14_Witness ==
    /\ monPc = "threw"
    /\ AutoStart
    /\ ~aborted
    /\ polls = MaxPolls
    /\ connects = 0
    /\ nFrames = 0
    /\ daemon = "stopped"
    /\ ~listener

InStreamLoop == monPc \in {"loopTop", "streaming", "backoff"}

\* C15: while no cancellation has been raised, every stream failure is
\* followed, after the backoff wait, by a new connection attempt (for every
\* number of earlier attempts below MaxConnects), and stream failures, however
\* many in a row, never make monitorSignalProvider return or raise.
C15_RetriesUntilCancelled ==
    /\ \A n \in 1..(MaxConnects - 1) :
           (monPc = "backoff" /\ connects = n) ~> (connects = n + 1 \/ aborted)
    /\ [][(InStreamLoop /\ ~aborted') => InStreamLoop']_vars
    /\ [](monPc = "returned" => aborted)
    /\ [](monPc = "threw" => failures = 0)

C15_Witness ==
    /\ ~aborted
    /\ failures = MaxConnects - 1
    /\ connects = MaxConnects
    /\ monPc = "streaming"

\* Frame k is a "receive" frame whose data does not parse.
Unparsable(k) ==
    Started(k) /\ hs[k].frame.event = "receive" /\ hs[k].frame.data = "garbage"

\* Handler k has made none of the calls that have an effect outside it.
NoEffect(k) ==
    /\ hs[k].enq = 0
    /\ NotificationsOf(k) = {}
    /\ hs[k].storeReads = 0
    /\ hs[k].upserts = 0
    /\ hs[k].sends = 0
    /\ hs[k].lastRoute = 0
    /\ hs[k].dispatch = 0

\* C16: a "receive" frame whose data cannot be parsed is discarded with a log
\* entry and no other effect; its arrival changes nothing in the stream loop
\* (no failure, no reconnect, no return); and a well-formed message that
\* arrives after it on the same connection is handled: it reaches the access
\* policy as it does on a stream without the bad frame.
C16_ParseFailureDiscarded ==
    /\ [](\A k \in Handlers :
             Unparsable(k) =>
                 /\ hs[k].pc = "done"
                 /\ hs[k].logged = {"parse"}
                 /\ NoEffect(k))
    /\ [][\A k \in Handlers :
             (~Started(k) /\ Unparsable(k)') =>
                 /\ UNCHANGED << monVars, storeVars, sysEvents, sink >>
                 /\ \A j \in Handlers \ {k} : hs'[j] = hs[j]]_vars
    /\ [](\A k1, k2 \in Handlers :
             (k1 < k2 /\ Unparsable(k1) /\ DirectMessage(k2) /\ Resolved(k2)) =>
                 /\ hs[k2].path = "message"
                 /\ hs[k2].storeReads = 1
                 /\ hs[k2].logged \cap {"parse"} = {})

C16_Witness ==
    \E k1, k2 \in Handlers :
        /\ k1 < k2
        /\ Unparsable(k1)
        /\ hs[k1].conn = hs[k2].conn
        /\ DirectMessage(k2)
        /\ hs[k2].pc = "done"
        /\ hs[k2].decision = "allow"
        /\ hs[k2].dispatch = 1
        /\ monPc = "streaming"

\* The handler of frame k has rejected.
HandlerFailed(k) == hs[k].pc = "failed"

\* C17: the rejection of one frame's handler is logged and goes no further:
\* the step in which it rejects changes nothing in monitorSignalProvider (the
\* stream stays as it is, no failure is counted, no reconnect follows from
\* it), nothing in any other handler and nothing in the stores, and
\* monitorSignalProvider never raises once a frame has been handled.
C17_HandlerFailureIsolated ==
    /\ [](\A k \in Handlers : HandlerFailed(k) => "handler" \in hs[k].logged)
    /\ [][\A k \in Handlers :
             (~HandlerFailed(k) /\ HandlerFailed(k)') =>
                 /\ UNCHANGED << monVars, storeVars, sysEvents, sink, nFrames >>
                 /\ \A j \in Handlers \ {k} : hs'[j] = hs[j]]_vars
    /\ []((\E k \in Handlers : Started(k)) => monPc # "threw")

C17_Witness ==
    \E k1, k2 \in Handlers :
        /\ k1 < k2
        /\ HandlerFailed(k1)
        /\ hs[k1].conn = hs[k2].conn
        /\ hs[k2].pc = "done"
        /\ hs[k2].dispatch = 1
        /\ monPc = "streaming"
        /\ connects = 1
        /\ failures = 0

\* Frame k carries a reaction that is not marked as a removal, and the mode
\* is all.
AddedReactionModeAll(k) ==
    /\ config.reactionNotifications = "all"
    /\ HasEnvelope(k)
    /\ Some(EnvelopeOf(k).reactionMessage)
    /\ ~ReactionOf(k).isRemove

\* C18 as stated: with reactionNotifications=all every reaction event that is
\* not a removal gets a notification enqueued, whatever the targets, the
\* configured account and the reaction allow-list.
C18_AllNotifiesEveryReaction ==
    \A k \in Handlers :
        AddedReactionModeAll(k) => hs[k].enq = 1 /\ Cardinality(NotificationsOf(k)) = 1

\* C18 amended: with reactionNotifications=all a reaction that is not a
\* removal gets exactly one notification, whatever the targets and the
\* reaction allow-list, when it is alone in its frame and its sender is
\* resolved and is not the configured account; it gets none when the sender
\* is the configured account or when the frame also carries a conversational
\* payload.
C18_AllNotifiesReactionOnlyFromOthers ==
    \A k \in Handlers :
        AddedReactionModeAll(k) =>
            IF ReactionOnly(k) /\ Resolved(k)
            THEN hs[k].enq = 1 /\ Cardinality(NotificationsOf(k)) = 1
            ELSE hs[k].enq = 0 /\ NotificationsOf(k) = {}

C18_Witness ==
    \E k1, k2 \in Handlers :
        /\ AddedReactionModeAll(k1) /\ AddedReactionModeAll(k2)
        /\ config.account = NULL
        /\ ReactionOnly(k1) /\ ReactionOnly(k2)
        /\ resolveSignalReactionTargets(ReactionOf(k1)) = <<>>
        /\ resolveSignalReactionTargets(ReactionOf(k2)) # <<>>
        /\ Cardinality(NotificationsOf(k1)) = 1
        /\ Cardinality(NotificationsOf(k2)) = 1

\* Frame k carries a reaction payload and a conversational payload.
BothPayloads(k) ==
    /\ HasEnvelope(k)
    /\ Some(EnvelopeOf(k).reactionMessage)
    /\ Some(DataMessageOf(EnvelopeOf(k)))

\* C19: a frame that carries a reaction beside a conversational payload
\* (dataMessage or editMessage.dataMessage) takes the conversational path only:
\* its message goes through the access policy and, when allowed, the
\* last-route update (direct messages) and the reply dispatch, and no reaction
\* notification is enqueued for it in any reaction mode; no event runs both
\* paths.
C19_BothPayloadsTakeMessagePath ==
    /\ \A k \in Handlers :
           BothPayloads(k) =>
               /\ hs[k].enq = 0
               /\ NotificationsOf(k) = {}
               /\ Resolved(k) => hs[k].path = "message" /\ hs[k].storeReads = 1
               /\ (Resolved(k) /\ hs[k].pc = "done") =>
                      /\ hs[k].decision # "none"
                      /\ hs[k].decision = "allow" =>
                             /\ hs[k].dispatch = 1
                             /\ hs[k].lastRoute = IF hs[k].isGroup THEN 0 ELSE 1
                      /\ hs[k].decision # "allow" => hs[k].dispatch = 0
    /\ \A k \in Handlers :
           hs[k].enq = 1 =>
               /\ hs[k].storeReads = 0 /\ hs[k].upserts = 0 /\ hs[k].sends = 0
               /\ hs[k].lastRoute = 0 /\ hs[k].dispatch = 0

C19_Witness ==
    \E k1, k2 \in Handlers :
        /\ config.reactionNotifications = "all"
        /\ BothPayloads(k1) /\ Some(EnvelopeOf(k1).editMessage)
        /\ hs[k1].pc = "done" /\ hs[k1].dispatch = 1 /\ hs[k1].lastRoute = 1
        /\ NotificationsOf(k1) = {}
        /\ ReactionOnly(k2) /\ ReactionOf(k2) = ReactionOf(k1)
        /\ Cardinality(NotificationsOf(k2)) = 1

\* The notification decision for the reaction of frame k.
ReactionDecisionOf(k) ==
    shouldEmitSignalReactionNotification(ReactionMode, Account,
        resolveSignalReactionTargets(ReactionOf(k)), resolveSignalSender(EnvelopeOf(k)),
        ReactionAllowlist)

\* C20: a frame that carries a reaction beside a conversational payload has
\* both processed: the reaction is notified exactly when it is not a removal
\* and the decision engine allows it, the message is evaluated by the access
\* policy, and a pairing request is issued at most once for the frame.
C20_BothPayloadsProcessed ==
    \A k \in Handlers :
        (BothPayloads(k) /\ Resolved(k)) =>
            /\ hs[k].enq = IF ~ReactionOf(k).isRemove /\ ReactionDecisionOf(k) THEN 1 ELSE 0
            /\ hs[k].path = "message"
            /\ hs[k].upserts <= 1

\* The reaction of frame k reached the notification decision in mode own.
OwnDecided(k) ==
    /\ OwnMode
    /\ ReactionOnly(k)
    /\ Resolved(k)
    /\ ~ReactionOf(k).isRemove

\* The account is configured and a target candidate of frame k matches it by
\* the rule of the candidate's kind.
OwnTargetMatches(k) ==
    LET account == Trim(config.account)
        uuid == Trim(ReactionOf(k).targetAuthorUuid)
        author == Trim(ReactionOf(k).targetAuthor)
    IN  /\ Truthy(account)
        /\ \/ Truthy(uuid) /\ (account = uuid \/ account = UuidPrefix \o uuid)
           \/ Truthy(author) /\ normalizeE164(account) = normalizeE164(author)

\* C21: in mode own (also when no mode is configured) a reaction is notified
\* if and only if the account is configured and some target candidate matches
\* it, a phone candidate by equality with the normalized account and a uuid
\* candidate by equality of the account string with the uuid or with "uuid:"
\* and the uuid; so nothing is notified for zero candidates, for an unset
\* account, and for a lone non-matching uuid candidate under a phone account.
C21_OwnNotifiesIffCandidateMatches ==
    \A k \in Handlers :
        OwnDecided(k) =>
            /\ hs[k].enq = 1 <=> OwnTargetMatches(k)
            /\ resolveSignalReactionTargets(ReactionOf(k)) = <<>> => hs[k].enq = 0
            /\ ~Truthy(Account) => hs[k].enq = 0
            /\ ( /\ Account \in {PhoneB, <<"2">>}
                 /\ ~Truthy(ReactionOf(k).targetAuthor)
                 /\ Truthy(ReactionOf(k).targetAuthorUuid) ) => hs[k].enq = 0

C21_Witness ==
    \E k1, k2 \in Handlers :
        /\ config.account = <<"2">>
        /\ OwnDecided(k1) /\ OwnDecided(k2)
        /\ ReactionOf(k1).targetAuthor = NULL /\ ReactionOf(k1).targetAuthorUuid = UuidB
        /\ hs[k1].enq = 0
        /\ ReactionOf(k2).targetAuthor = <<"2">> /\ ReactionOf(k2).targetAuthorUuid = UuidB
        /\ hs[k2].enq = 1

\* Frame k carries a reaction that is not marked as a removal, and the mode
\* is allowlist.
AddedReactionModeAllowlist(k) ==
    /\ config.reactionNotifications = "allowlist"
    /\ HasEnvelope(k)
    /\ Some(EnvelopeOf(k).reactionMessage)
    /\ ~ReactionOf(k).isRemove

\* The sender of frame k matches the configured reaction allow-list.
ReactionSenderAllowed(k) ==
    isSignalSenderAllowed(resolveSignalSender(EnvelopeOf(k)),
                          normalizeAllowList(config.reactionAllowlist))

\* C22 as stated: in mode allowlist a reaction that is not a removal is
\* notified if and only if its sender matches the reaction allow-list,
\* whatever the targets and the configured account.
C22_AllowlistNotifiesIffSenderListed ==
    \A k \in Handlers :
        AddedReactionModeAllowlist(k) => (hs[k].enq = 1 <=> ReactionSenderAllowed(k))

\* C22 amended: in mode allowlist a reaction that is not a removal, is alone
\* in its frame and comes from a resolved sender other than the configured
\* account is notified if and only if its sender matches the reaction
\* allow-list, whatever the targets and the account, and never under an empty
\* or missing list; a reaction from the configured account itself, or beside
\* a conversational payload, is not notified.
C22_AllowlistNotifiesListedOthers ==
    \A k \in Handlers :
        AddedReactionModeAllowlist(k) =>
            /\ IF ReactionOnly(k) /\ Resolved(k)
               THEN hs[k].enq = 1 <=> ReactionSenderAllowed(k)
               ELSE hs[k].enq = 0
            /\ normalizeAllowList(config.reactionAllowlist) = <<>> => hs[k].enq = 0
            /\ Cardinality(NotificationsOf(k)) = hs[k].enq

C22_Witness ==
    \E k1, k2 \in Handlers :
        /\ AddedReactionModeAllowlist(k1) /\ AddedReactionModeAllowlist(k2)
        /\ config.account = NULL /\ config.reactionAllowlist = << PhoneA >>
        /\ ReactionOnly(k1) /\ ReactionOnly(k2)
        /\ resolveSignalSender(EnvelopeOf(k1)).kind = "phone"
        /\ resolveSignalReactionTargets(ReactionOf(k1)) = <<>>
        /\ hs[k1].enq = 1
        /\ resolveSignalSender(EnvelopeOf(k2)).kind = "uuid"
        /\ hs[k2].enq = 0 /\ hs[k2].pc = "done"

\* Frame k holds an envelope that carries a syncMessage.
SyncEcho(k) == HasEnvelope(k) /\ EnvelopeOf(k).syncMessage

\* C23: an envelope that carries a syncMessage is ignored before its sender
\* is resolved and has no effect, also when it carries a dataMessage or a
\* reactionMessage as well: no notification, no store read, no pairing, no
\* last-route update and no dispatch; and its arrival changes nothing else.
C23_SyncEchoIgnored ==
    /\ [](\A k \in Handlers :
             SyncEcho(k) =>
                 /\ hs[k].pc = "done"
                 /\ hs[k].path = "sync"
                 /\ hs[k].sender = NoSender
                 /\ hs[k].logged \subseteq {"exception"}
                 /\ NoEffect(k))
    /\ [][\A k \in Handlers :
             (~Started(k) /\ SyncEcho(k)') =>
                 UNCHANGED << monVars, storeVars, sysEvents, sink >>]_vars

C23_Witness ==
    \E k1, k2 \in Handlers :
        /\ SyncEcho(k1) /\ Some(EnvelopeOf(k1).dataMessage)
        /\ SyncEcho(k2) /\ Some(EnvelopeOf(k2).reactionMessage)
        /\ config.dmPolicy = "open" /\ config.reactionNotifications = "all"
        /\ hs[k1].pc = "done" /\ hs[k2].pc = "done"
        /\ sysEvents = <<>>

\* Handler k has handed its message to the reply pipeline.
Dispatched(k) == hs[k].dispatch = 1

\* The sender of frame k is in the effective group allow-list.
InEffectiveGroupAllow(k) ==
    isSignalSenderAllowed(resolveSignalSender(EnvelopeOf(k)), EffectiveGroupAllowOf(k))

\* C24: the command-authorized flag handed to the reply pipeline is, for a
\* group message, true when the effective group allow-list is empty and the
\* sender's membership of that list otherwise, and for a direct message the
\* direct-message allow decision. So an outsider's group message under
\* groupPolicy=open with a non-empty group list is dispatched with the flag
\* false, and every dispatched direct message and every group message
\* dispatched under groupPolicy=allowlist has the flag true.
C24_CommandAuthorizedIndependent ==
    \A k \in Handlers :
        /\ Dispatched(k) =>
               /\ GroupMessage(k) =>
                      hs[k].cmdAuth = (EffectiveGroupAllowOf(k) = <<>> \/ InEffectiveGroupAllow(k))
               /\ ~GroupMessage(k) =>
                      /\ hs[k].cmdAuth = (DmPolicy = "open" \/ InEffectiveDmAllow(k))
                      /\ hs[k].cmdAuth
               /\ (GroupMessage(k) /\ GroupPolicy = "allowlist") => hs[k].cmdAuth
        /\ ( /\ hs[k].pc = "done" /\ PolicyDone(k)
             /\ GroupPolicy = "open"
             /\ GroupMessage(k)
             /\ EffectiveGroupAllowOf(k) # <<>> /\ ~InEffectiveGroupAllow(k) ) =>
               Dispatched(k) /\ ~hs[k].cmdAuth

C24_Witness ==
    \E k1, k2 \in Handlers :
        /\ GroupMessage(k1) /\ GroupMessage(k2)
        /\ config.groupPolicy = "open"
        /\ hs[k1].pc = "done" /\ hs[k2].pc = "done"
        /\ Dispatched(k1) /\ ~InEffectiveGroupAllow(k1) /\ ~hs[k1].cmdAuth
        /\ Dispatched(k2) /\ InEffectiveGroupAllow(k2) /\ hs[k2].cmdAuth

\* The attachment fetch of handler k failed; the pairing reply of handler k
\* could not be sent.
FetchFailed(k) == "attachment" \in hs[k].logged

PairingReplyFailed(k) == "pairingReply" \in hs[k].logged

TextOf(k) ==
    LET message == DataMessageOf(EnvelopeOf(k))[1].message
    IN  IF message = NULL THEN <<>> ELSE Trim(message)

\* C25 as stated: a message whose attachment fetch failed is dispatched with
\* a media placeholder as its body and without a media path.
C25_FetchFailureGivesPlaceholderBody ==
    \A k \in Handlers :
        FetchFailed(k) => hs[k].body = <<"<media:attachment>">> /\ ~hs[k].media

\* C25 amended: a failed attachment fetch (an attachment over the size cap
\* included) and a failed pairing reply do not fail the handler and skip only
\* their own effect: after the failed fetch the allowed message goes on to the
\* reply pipeline without a media path, its body being its text or, when it
\* has none, the placeholder <media:attachment>; after the failed pairing
\* reply the handler ends normally and the message stays denied.
C25_DownstreamFailureSkipsOnlyItsEffect ==
    /\ [](\A k \in Handlers :
             FetchFailed(k) =>
                 /\ ~hs[k].media
                 /\ hs[k].body = IF Truthy(TextOf(k)) THEN TextOf(k)
                                  ELSE <<"<media:attachment>">>
                 /\ hs[k].decision = "allow"
                 /\ hs[k].pc = "done" => Dispatched(k))
    /\ [](\A k \in Handlers :
             PairingReplyFailed(k) =>
                 /\ hs[k].pc = "done"
                 /\ hs[k].decision = "deny-with-pairing"
                 /\ hs[k].dispatch = 0 /\ hs[k].lastRoute = 0)
    /\ [][\A k \in Handlers :
             /\ (~FetchFailed(k) /\ FetchFailed(k)') =>
                    hs'[k].pc \in {"lastRoute", "dispatch"}
             /\ (~PairingReplyFailed(k) /\ PairingReplyFailed(k)') =>
                    hs'[k].pc = "done"]_vars

C25_Witness ==
    \E k1, k2 \in Handlers :
        /\ FetchFailed(k1) /\ hs[k1].pc = "done" /\ Dispatched(k1)
        /\ hs[k1].body = Hello /\ ~hs[k1].media
        /\ PairingReplyFailed(k2) /\ hs[k2].pc = "done" /\ hs[k2].dispatch = 0

\* Handler k is suspended on an external call.
Suspended(k) ==
    hs[k].pc \in {"storeRead", "upsert", "pairingSend", "fetch", "lastRoute", "dispatch"}

\* C26: handlers start in the order in which their frames arrive, and the
\* stream takes the next frame whatever the earlier handlers are doing: while
\* the stream stays open the next frame is received even if no suspended
\* handler ever resumes, so a later handler can finish before an earlier one.
C26_StartInOrderCompleteInAny ==
    /\ [](\A k1, k2 \in Handlers : (k1 < k2 /\ Started(k2)) => Started(k1))
    /\ [](\A k \in Handlers : Started(k) <=> k <= nFrames)
    /\ \A n \in 0..(MaxFrames - 1) :
           (monPc = "streaming" /\ nFrames = n) ~> (nFrames = n + 1 \/ monPc # "streaming")

C26_Witness ==
    \E k1, k2 \in Handlers :
        /\ k1 < k2
        /\ Suspended(k1) /\ hs[k1].pc = "storeRead"
        /\ hs[k2].pc = "done"
        /\ hs[k2].upserts = 1 /\ hs[k2].sends = 1
        /\ SenderIdOf(k2) \in pending

\* The store read of handler k settles in this step.
StoreReadSettles(k) == hs[k].pc = "storeRead" /\ hs'[k].pc # "storeRead"

\* C27 as stated: a direct message whose sender is in the static list or in
\* the persisted list as read for this message is allowed, causes no pairing
\* request and is dispatched.
C27_ListedSenderAllowedAndDispatched ==
    \A k \in Handlers :
        (DirectMessage(k) /\ PolicyDone(k) /\ InEffectiveDmAllow(k)) =>
            /\ hs[k].decision = "allow"
            /\ hs[k].upserts = 0
            /\ hs[k].pc = "done" => Dispatched(k)

\* C27 amended: every message that reaches the access policy reads the
\* persisted allow-list anew, as it is when the read settles, and joins it
\* with the static list; a sender found in either is allowed unless the
\* direct-message policy is disabled; so the next direct message of a sender
\* approved after a pairing request is allowed without a new pairing request
\* and, when it has a body, dispatched.
C27_StoreReadAfreshAndJoined ==
    /\ [][\A k \in Handlers :
             StoreReadSettles(k) =>
                 hs'[k].storeAllow \in
                     {allowStore} \cup (IF traffic.faulty THEN {<<>>} ELSE {})]_vars
    /\ [](\A k \in Handlers :
             (DirectMessage(k) /\ PolicyDone(k) /\ InEffectiveDmAllow(k)) =>
                 /\ hs[k].decision = IF DmPolicy = "disabled" THEN "deny-silent" ELSE "allow"
                 /\ hs[k].upserts = 0
                 /\ (hs[k].pc = "done" /\ DmPolicy # "disabled") =>
                        (Dispatched(k) <=> Truthy(hs[k].body)))

C27_Witness ==
    \E k1, k2 \in Handlers :
        /\ k1 < k2
        /\ DmPolicy = "pairing" /\ AllowFrom = <<>>
        /\ DirectMessage(k1) /\ DirectMessage(k2)
        /\ SenderIdOf(k1) = SenderIdOf(k2)
        /\ hs[k1].decision = "deny-with-pairing" /\ hs[k1].upserts = 1
        /\ hs[k1].storeAllow = <<>>
        /\ hs[k2].storeAllow = << SenderIdOf(k2) >>
        /\ hs[k2].decision = "allow" /\ hs[k2].upserts = 0
        /\ hs[k2].pc = "done" /\ Dispatched(k2)

\* Frames k1 and k2 carry reactions of the same sender with the same emoji to
\* the same target message in the same conversation.
SameReaction(k1, k2) ==
    /\ resolveSignalSender(EnvelopeOf(k1)) = resolveSignalSender(EnvelopeOf(k2))
    /\ Trim(ReactionOf(k1).emoji) = Trim(ReactionOf(k2).emoji)
    /\ ReactionOf(k1).targetSentTimestamp = ReactionOf(k2).targetSentTimestamp
    /\ ReactionOf(k1).groupId = ReactionOf(k2).groupId

\* C28: the contextKey of a reaction notification does not hold the reaction
\* envelope's own timestamp: two notified reactions of one sender with one
\* emoji to one target message in one conversation, arriving in different
\* envelopes, get the same contextKey in the same session, and the sink,
\* idempotent per contextKey, holds a single notification for the two.
C28_RepeatedReactionSameKey ==
    \A k1, k2 \in Handlers :
        (k1 < k2 /\ Notified(k1) /\ Notified(k2) /\ SameReaction(k1, k2)) =>
            /\ NotificationOf(k2).contextKey = NotificationOf(k1).contextKey
            /\ NotificationOf(k2).sessionKey = NotificationOf(k1).sessionKey
            /\ Cardinality({ e \in sink :
                               /\ e.contextKey = NotificationOf(k2).contextKey
                               /\ e.sessionKey = NotificationOf(k2).sessionKey }) = 1
            /\ Cardinality(sink) < Len(sysEvents)

C28_Witness ==
    \E k1, k2 \in Handlers :
        /\ k1 < k2
        /\ Notified(k1) /\ Notified(k2) /\ SameReaction(k1, k2)
        /\ EnvelopeOf(k1).timestamp # EnvelopeOf(k2).timestamp
        /\ hs[k1].conn = hs[k2].conn
        /\ Len(sysEvents) = 2
        /\ sink = { NotificationOf(k1) }

\* monitorSignalProvider has returned or thrown.
Left == monPc \in {"returned", "threw"}

\* C29: a daemon that monitorSignalProvider spawned is stopped on every way
\* out of the function, by return or by throw, and at once when the abort
\* signal fires while the function runs; once the function has left, its
\* abort listener is detached; without autoStart no daemon is ever touched.
C29_DaemonStoppedListenerDetached ==
    /\ [](Left => (~listener /\ daemon = IF AutoStart THEN "stopped" ELSE "none"))
    /\ [][(~aborted /\ aborted' /\ daemon = "running") => daemon' = "stopped"]_vars
    /\ [][daemon = "stopped" => daemon' = "stopped"]_vars
    /\ [](daemon = "running" => (listener /\ ~Left))

C29_Witness ==
    /\ AutoStart
    /\ monPc = "threw"
    /\ ~aborted
    /\ daemon = "stopped"
    /\ ~listener

\* The store read of handler k failed: the handler went on with the empty
\* list although the store is not empty.
StoreReadFailed(k) ==
    /\ PolicyDone(k)
    /\ hs[k].storeAllow = <<>>
    /\ allowStore # <<>>

\* The sender of frame k is allowed through the persisted store only.
AllowedByStoreOnly(k) ==
    /\ isSignalSenderAllowed(resolveSignalSender(EnvelopeOf(k)), allowStore)
    /\ ~isSignalSenderAllowed(resolveSignalSender(EnvelopeOf(k)), AllowFrom)

\* C30: a failed read of the persisted allow-list does not fail the handler:
\* the step in which the read fails takes the access decision on the static
\* list alone, so a direct message of a sender who is allowed through the
\* store only is treated as not allow-listed, and under dmPolicy=pairing a
\* pairing request is upserted for that sender.
C30_StoreReadFailureFallsBackToStatic ==
    /\ [][\A k \in Handlers :
             (StoreReadSettles(k) /\ hs'[k].storeAllow # allowStore) =>
                 /\ hs'[k].storeAllow = <<>>
                 /\ hs'[k].pc # "failed"
                 /\ "handler" \notin hs'[k].logged
                 /\ UNCHANGED << monVars, storeVars >>]_vars
    /\ [](\A k \in Handlers :
             (DirectMessage(k) /\ StoreReadFailed(k)) =>
                 /\ hs[k].decision =
                        DmTable(DmPolicy, isSignalSenderAllowed(
                                    resolveSignalSender(EnvelopeOf(k)), AllowFrom))
                 /\ (DmPolicy = "pairing" /\ AllowedByStoreOnly(k)) =>
                        /\ hs[k].decision = "deny-with-pairing"
                        /\ hs[k].upserts = 1
                        /\ hs[k].dispatch = 0)

C30_Witness ==
    \E k \in Handlers :
        /\ DirectMessage(k) /\ StoreReadFailed(k)
        /\ DmPolicy = "pairing"
        /\ AllowedByStoreOnly(k)
        /\ hs[k].pc = "done"
        /\ hs[k].upserts = 1
        /\ SenderIdOf(k) \in pending
        /\ \A j \in Handlers \ {k} : hs[j].upserts = 0

====
